---- MODULE Spec2Model ----
(***************************************************************************)
(* A model of the django_util library: the transaction state table and    *)
(* its lookup, the Transaction.state column, the post_save handler that   *)
(* creates profiles, the two custom model fields and the truncate-table   *)
(* command and script, and the two progress models.                        *)
(*                                                                         *)
(* A Python str is a sequence of one-character strings, so that strip(),  *)
(* upper() and urlparse() are computed character by character.  A Python  *)
(* value is a record [t, v]: t is its type tag and v a sequence.           *)
(***************************************************************************)
EXTENDS Integers, Sequences, FiniteSets, TLC

VARIABLES
    txnState,   \* the persisted state column of one Transaction row
    txnCall,    \* the last call on the transaction component and its result
    settings,   \* the Django settings the handler reads: PROFILE_MODEL
    users,      \* the rows of auth.User
    profiles,   \* the rows of the profile table
    nextId,     \* the next primary key of each of the two tables
    signalCall, \* the last ORM call on a user and how it ended
    fieldCall,  \* the last call of a model field's method and its outcome
    truncCall,  \* the invocation of the truncate-table command or script
    executed,   \* the statements the invocation passed to cursor.execute
    stdout,     \* the messages the invocation wrote to standard output
    stderr,     \* the messages the invocation wrote to standard error
    progressKind,  \* the progress model in use: import or extract
    progressRow,   \* the persisted row of one progress record
    progressObj,   \* the in-memory instances of that record
    progressClock, \* timezone.now(), counted in the calls made so far
    progressCall,  \* the last call on a progress instance and its result
    choiceCall,    \* the choice class and the value its methods are called on
    choiceRet,     \* what each class method called so far returned
    adminCall,     \* the model and the type list the admin helpers are given
    adminRet,      \* what each admin helper called so far returned
    validatorCall, \* the last call of a validator and its outcome
    requestGET,    \* request.GET of the request a template is rendered for
    tagCall        \* the last call of a template tag and its result

txnVars == <<txnState, txnCall>>
profileVars == <<settings, users, profiles, nextId, signalCall>>
fieldVars == <<fieldCall>>
truncVars == <<truncCall, executed, stdout, stderr>>
progressVars ==
    <<progressKind, progressRow, progressObj, progressClock, progressCall>>
choiceVars == <<choiceCall, choiceRet>>
adminVars == <<adminCall, adminRet>>
validatorVars == <<validatorCall>>
tagVars == <<requestGET, tagCall>>
vars ==
    <<txnVars, profileVars, fieldVars, truncVars, progressVars, choiceVars,
      adminVars, validatorVars, tagVars>>

\* what an operation of one component leaves alone
TxnFrame ==
    UNCHANGED <<profileVars, fieldVars, truncVars, progressVars,
                choiceVars, adminVars, validatorVars, tagVars>>
ProfileFrame ==
    UNCHANGED <<txnVars, fieldVars, truncVars, progressVars,
                choiceVars, adminVars, validatorVars, tagVars>>
FieldFrame ==
    UNCHANGED <<txnVars, profileVars, truncVars, progressVars,
                choiceVars, adminVars, validatorVars, tagVars>>
TruncFrame ==
    UNCHANGED <<txnVars, profileVars, fieldVars, progressVars,
                choiceVars, adminVars, validatorVars, tagVars>>
ProgressFrame ==
    UNCHANGED <<txnVars, profileVars, fieldVars, truncVars,
                choiceVars, adminVars, validatorVars, tagVars>>
ChoiceFrame ==
    UNCHANGED <<txnVars, profileVars, fieldVars, truncVars,
                progressVars, adminVars, validatorVars, tagVars>>
AdminFrame ==
    UNCHANGED <<txnVars, profileVars, fieldVars, truncVars,
                progressVars, choiceVars, validatorVars, tagVars>>
ValidatorFrame ==
    UNCHANGED <<txnVars, profileVars, fieldVars, truncVars,
                progressVars, choiceVars, adminVars, tagVars>>
TagFrame ==
    UNCHANGED <<txnVars, profileVars, fieldVars, truncVars,
                progressVars, choiceVars, adminVars, validatorVars>>

NoCall == [op |-> "none"]

----------------------------------------------------------------------------
(* Python values *)

PyStr(s) == [t |-> "str", v |-> s]
PyNone == [t |-> "None", v |-> <<>>]
\* a value that is neither a str nor bytes, such as the int 5
PyInt(digits) == [t |-> "int", v |-> digits]
PyBytes(b) == [t |-> "bytes", v |-> b]
\* an object whose __str__ raises the exception named exc
PyRaising(exc) == [t |-> "raising", v |-> <<exc>>]
\* the outcome "the call raised exc"
Raised(exc) == [t |-> "raise", v |-> <<exc>>]

----------------------------------------------------------------------------
(* str.strip() and str.upper() *)

\* str.isspace() on the characters of the model's alphabets
IsSpace(c) == c \in {" ", "\t", "\n", "\r"}

LowerLetters == <<"a", "b", "c", "d", "e", "f", "g", "h", "i", "j", "k", "l", "m",
                  "n", "o", "p", "q", "r", "s", "t", "u", "v", "w", "x", "y", "z">>
UpperLetters == <<"A", "B", "C", "D", "E", "F", "G", "H", "I", "J", "K", "L", "M",
                  "N", "O", "P", "Q", "R", "S", "T", "U", "V", "W", "X", "Y", "Z">>

\* The uppercase of one character, a sequence: str.upper() uses the full case
\* mapping, under which U+00DF (sharp s) becomes "SS".
UpperOf(c) ==
    IF \E i \in 1..Len(LowerLetters) : LowerLetters[i] = c
    THEN <<UpperLetters[CHOOSE i \in 1..Len(LowerLetters) : LowerLetters[i] = c]>>
    ELSE IF c = "U+00DF" THEN <<"S", "S">>
    ELSE <<c>>

RECURSIVE lstrip(_)
lstrip(s) == IF s # <<>> /\ IsSpace(Head(s)) THEN lstrip(Tail(s)) ELSE s

RECURSIVE rstrip(_)
rstrip(s) ==
    IF s # <<>> /\ IsSpace(s[Len(s)]) THEN rstrip(SubSeq(s, 1, Len(s) - 1)) ELSE s

strip(s) == rstrip(lstrip(s))

RECURSIVE upper(_)
upper(s) == IF s = <<>> THEN <<>> ELSE UpperOf(Head(s)) \o upper(Tail(s))

\* str(value): a str is itself, None is "None", and an object's __str__ may raise
str(value) ==
    CASE value.t = "str" -> PyStr(value.v)
      [] value.t = "None" -> PyStr(<<"N", "o", "n", "e">>)
      [] value.t = "int" -> PyStr(value.v)
      [] value.t = "raising" -> Raised(value.v[1])

\* a get_prep_value that strips the left side only
UpperPrepLeftStrip(value) ==
    LET s == str(value) IN
    IF s.t = "raise"
    THEN IF s.v[1] \in {"TypeError", "AttributeError"} THEN PyNone ELSE s
    ELSE PyStr(upper(lstrip(s.v)))

\* UpperTextField.get_prep_value: str(value).strip().upper(), and None when
\* that raises TypeError or AttributeError; any other exception propagates.
UpperTextField_get_prep_value(value) ==
    LET s == str(value) IN
    IF s.t = "raise"
    THEN IF s.v[1] \in {"TypeError", "AttributeError"} THEN PyNone ELSE s
    ELSE PyStr(upper(strip(s.v)))

----------------------------------------------------------------------------
(* choices.py: TransactionStateChoices and TRANSACTION_STATE_TRANSITIONS *)

DEFAULT == <<>>
REQUIRES_PAYMENT_METHOD ==
    <<"R", "E", "Q", "U", "I", "R", "E", "S", "_", "P", "A", "Y", "M", "E", "N", "T",
      "_", "M", "E", "T", "H", "O", "D">>
REQUIRES_CONFIRMATION ==
    <<"R", "E", "Q", "U", "I", "R", "E", "S", "_", "C", "O", "N", "F", "I", "R", "M",
      "A", "T", "I", "O", "N">>
REQUIRES_ACTION ==
    <<"R", "E", "Q", "U", "I", "R", "E", "S", "_", "A", "C", "T", "I", "O", "N">>
PROCESSING == <<"P", "R", "O", "C", "E", "S", "S", "I", "N", "G">>
CANCEL == <<"C", "A", "N", "C", "E", "L">>
SUCCESS == <<"S", "U", "C", "C", "E", "S", "S">>

\* the values of the choice class
TransactionStateChoices ==
    {DEFAULT, REQUIRES_PAYMENT_METHOD, REQUIRES_CONFIRMATION, REQUIRES_ACTION,
     PROCESSING, CANCEL, SUCCESS}

\* a variant of the table in which a successful payment can be cancelled
TransitionsWithRefund ==
    (DEFAULT :> {REQUIRES_PAYMENT_METHOD})
    @@ (REQUIRES_PAYMENT_METHOD :> {REQUIRES_CONFIRMATION, CANCEL})
    @@ (REQUIRES_CONFIRMATION :> {REQUIRES_ACTION, PROCESSING, CANCEL})
    @@ (REQUIRES_ACTION :> {PROCESSING, CANCEL})
    @@ (PROCESSING :> {SUCCESS, CANCEL})
    @@ (SUCCESS :> {CANCEL})
    @@ (CANCEL :> {})

TRANSACTION_STATE_TRANSITIONS ==
    (DEFAULT :> {REQUIRES_PAYMENT_METHOD})
    @@ (REQUIRES_PAYMENT_METHOD :> {REQUIRES_CONFIRMATION, CANCEL})
    @@ (REQUIRES_CONFIRMATION :> {REQUIRES_ACTION, PROCESSING, CANCEL})
    @@ (REQUIRES_ACTION :> {PROCESSING, CANCEL})
    @@ (PROCESSING :> {SUCCESS, CANCEL})
    @@ (SUCCESS :> {})
    @@ (CANCEL :> {})

\* dict.get(key, default)
DictGet(d, key, default) == IF key \in DOMAIN d THEN d[key] ELSE default

\* the lookup with its two arguments exchanged
CanTransitionSwapped(current_state, new_state) ==
    current_state \in DictGet(TRANSACTION_STATE_TRANSITIONS, new_state, {})

can_transition_to(current_state, new_state) ==
    new_state \in DictGet(TRANSACTION_STATE_TRANSITIONS, current_state, {})

\* Strings handed to the lookup and assigned to Transaction.state: the choice
\* values, a choice value in lower case with a space around it, and a string
\* that is no choice value.
StateStrings ==
    TransactionStateChoices
    \cup {<<" ", "s", "u", "c", "c", "e", "s", "s", " ">>,
          <<"F", "A", "I", "L", "E", "D">>}

InitTxn ==
    /\ txnState = DEFAULT       \* default=TransactionStateChoices.DEFAULT
    /\ txnCall = NoCall

\* a caller asks TransactionStateChoices.can_transition_to(current, new)
CanTransitionTo ==
    \E current \in StateStrings, new \in StateStrings :
        /\ txnCall' = [op |-> "can_transition_to", current |-> current,
                       new |-> new, ret |-> can_transition_to(current, new)]
        /\ UNCHANGED txnState
        /\ TxnFrame

\* transaction.state = value; transaction.save(): the column is written with
\* the field's get_prep_value(value); nothing consults the transition table
SaveTransactionState ==
    \E value \in StateStrings :
        LET prepared == UpperTextField_get_prep_value(PyStr(value)) IN
        /\ txnState' = prepared.v
        /\ txnCall' = [op |-> "save", value |-> value]
        /\ TxnFrame

\* the use the class documents: the transition is performed only when
\* can_transition_to(current, new) allows it
TransitionIfAllowed ==
    \E value \in StateStrings :
        LET prepared == UpperTextField_get_prep_value(PyStr(value)) IN
        /\ can_transition_to(txnState, value)
        /\ txnState' = prepared.v
        /\ txnCall' = [op |-> "transition", value |-> value]
        /\ TxnFrame


----------------------------------------------------------------------------
(* signals.py, models.py: the post_save handler of User and Profile *)

MaxUsers == 3

Usernames == {"your_username", "alice"}

\* The models the application registry holds.  Profile of django_util is
\* declared abstract (class Meta: abstract = True), and the registry holds
\* concrete models only; "host.Profile" stands for a concrete subclass that a
\* hosting project defines.
RegisteredModels == {"host.Profile"}

\* getattr(settings, "PROFILE_MODEL", "django_util.Profile")
profile_model_path ==
    IF settings.PROFILE_MODEL = "unset" THEN "django_util.Profile"
    ELSE settings.PROFILE_MODEL

\* apps.get_model(path): the model, or LookupError when none is registered
get_model(path) == IF path \in RegisteredModels THEN "ok" ELSE "LookupError"

\* The row Profile.objects.create(user=instance) inserts: the fields Profile
\* declares are the automatic primary key and the one-to-one user.
NewProfile(id, instance) == [id |-> id, user |-> instance.id]

ProfilesOf(user_id) == {p \in profiles : p.user = user_id}

\* create_user_profile(sender, instance, created): what it does to the
\* profile table, the key counter and how it ends
create_user_profile(instance, created) ==
    IF get_model(profile_model_path) = "LookupError"
    THEN [profiles |-> profiles, nextProfile |-> nextId.profile,
          result |-> "LookupError"]
    ELSE IF created
    THEN [profiles |-> profiles \cup {NewProfile(nextId.profile, instance)},
          nextProfile |-> nextId.profile + 1, result |-> "ok"]
    ELSE IF ProfilesOf(instance.id) = {}
    THEN [profiles |-> profiles, nextProfile |-> nextId.profile,
          result |-> "RelatedObjectDoesNotExist"]
    \* instance.profile.save() rewrites the row with the values it has
    ELSE [profiles |-> profiles, nextProfile |-> nextId.profile, result |-> "ok"]

\* empty tables
InitTables ==
    /\ users = {}
    /\ profiles = {}
    /\ nextId = [user |-> 1, profile |-> 1]
    /\ signalCall = NoCall

\* PROFILE_MODEL is not set
InitProfile ==
    /\ settings = [PROFILE_MODEL |-> "unset"]
    /\ InitTables

\* PROFILE_MODEL is not set, or names the concrete model of the hosting project
InitProfileSettings ==
    /\ settings \in {[PROFILE_MODEL |-> "unset"], [PROFILE_MODEL |-> "host.Profile"]}
    /\ InitTables

\* User.objects.create(username=...): the row is inserted (username is
\* unique), then post_save is sent with created=True; an exception of the
\* handler leaves the inserted row in place.
CreateUser ==
    \E username \in Usernames :
        /\ nextId.user <= MaxUsers
        /\ IF \E u \in users : u.username = username
           THEN /\ signalCall' = [op |-> "create", username |-> username,
                                  result |-> "IntegrityError"]
                /\ UNCHANGED <<users, profiles, nextId>>
           ELSE LET instance == [id |-> nextId.user, username |-> username]
                    handled == create_user_profile(instance, TRUE)
                IN  /\ users' = users \cup {instance}
                    /\ profiles' = handled.profiles
                    /\ nextId' = [user |-> nextId.user + 1,
                                  profile |-> handled.nextProfile]
                    /\ signalCall' = [op |-> "create", username |-> username,
                                      result |-> handled.result]
        /\ UNCHANGED settings
        /\ ProfileFrame

\* user.save() of a stored user: post_save is sent with created=False
SaveUser ==
    \E instance \in users :
        LET handled == create_user_profile(instance, FALSE) IN
        /\ profiles' = handled.profiles
        /\ nextId' = [nextId EXCEPT !.profile = handled.nextProfile]
        /\ signalCall' = [op |-> "save", username |-> instance.username,
                          result |-> handled.result]
        /\ UNCHANGED <<settings, users>>
        /\ ProfileFrame

\* user.delete(): on_delete=CASCADE removes the user's profile with it
DeleteUser ==
    \E instance \in users :
        /\ users' = users \ {instance}
        /\ profiles' = profiles \ ProfilesOf(instance.id)
        /\ signalCall' = [op |-> "delete", username |-> instance.username,
                          result |-> "ok"]
        /\ UNCHANGED <<settings, nextId>>
        /\ ProfileFrame

----------------------------------------------------------------------------
(* fields.py: NoParamURLField, and urllib.parse.urlparse as it calls it *)

Digits == {"0", "1", "2", "3", "4", "5", "6", "7", "8", "9"}

IsAlpha(c) ==
    \E i \in 1..Len(LowerLetters) : LowerLetters[i] = c \/ UpperLetters[i] = c

\* scheme_chars: letters, digits and "+-."
IsSchemeChar(c) == IsAlpha(c) \/ c \in Digits \/ c \in {"+", "-", "."}

LowerOf(c) ==
    IF \E i \in 1..Len(UpperLetters) : UpperLetters[i] = c
    THEN LowerLetters[CHOOSE i \in 1..Len(UpperLetters) : UpperLetters[i] = c]
    ELSE c

lower(s) == [i \in 1..Len(s) |-> LowerOf(s[i])]

\* s.find(c, from): the first index at or after from that holds c, 0 if none
\* (indices count from 1 here, and Python's -1 is 0)
Find(s, c, from) ==
    LET hits == {i \in from..Len(s) : s[i] = c} IN
    IF hits = {} THEN 0 ELSE CHOOSE i \in hits : \A j \in hits : i <= j

\* s.rfind(c)
RFind(s, c) ==
    LET hits == {i \in 1..Len(s) : s[i] = c} IN
    IF hits = {} THEN 0 ELSE CHOOSE i \in hits : \A j \in hits : i >= j

Take(s, n) == SubSeq(s, 1, n)           \* s[:n]
Drop(s, n) == SubSeq(s, n + 1, Len(s))  \* s[n:]

\* the schemes whose last path segment may carry ";parameters"
uses_params ==
    {<<>>,
     <<"f", "t", "p">>,
     <<"h", "d", "l">>,
     <<"p", "r", "o", "s", "p", "e", "r", "o">>,
     <<"h", "t", "t", "p">>,
     <<"i", "m", "a", "p">>,
     <<"h", "t", "t", "p", "s">>,
     <<"s", "h", "t", "t", "p">>,
     <<"r", "t", "s", "p">>,
     <<"r", "t", "s", "p", "s">>,
     <<"r", "t", "s", "p", "u">>,
     <<"s", "i", "p">>,
     <<"s", "i", "p", "s">>,
     <<"m", "m", "s">>,
     <<"s", "f", "t", "p">>,
     <<"t", "e", "l">>}

\* s.split(c, 1) when c occurs in s: the text before the first c and the
\* text after it; the whole of s and nothing when it does not occur
SplitAt(s, c) ==
    IF Find(s, c, 1) > 0
    THEN [head |-> Take(s, Find(s, c, 1) - 1), tail |-> Drop(s, Find(s, c, 1))]
    ELSE [head |-> s, tail |-> <<>>]

\* urlsplit's scheme step: the text before the first ":" is the scheme when
\* it starts with a letter and holds scheme characters only
SplitScheme(url) ==
    IF /\ Find(url, ":", 1) > 1
       /\ IsAlpha(url[1])
       /\ \A k \in 1..(Find(url, ":", 1) - 1) : IsSchemeChar(url[k])
    THEN [scheme |-> lower(SplitAt(url, ":").head), url |-> SplitAt(url, ":").tail]
    ELSE [scheme |-> <<>>, url |-> url]

\* the end of the netloc: the first of "/", "?" and "#" after the "//"
NetlocEnd(url) ==
    IF {Find(url, c, 3) : c \in {"/", "?", "#"}} \ {0} = {} THEN Len(url) + 1
    ELSE CHOOSE i \in {Find(url, c, 3) : c \in {"/", "?", "#"}} \ {0} :
            \A j \in {Find(url, c, 3) : c \in {"/", "?", "#"}} \ {0} : i <= j

\* if url[:2] == "//": netloc, url = _splitnetloc(url, 2)
splitnetloc(url) ==
    IF Len(url) >= 2 /\ Take(url, 2) = <<"/", "/">>
    THEN [netloc |-> SubSeq(url, 3, NetlocEnd(url) - 1),
          url |-> Drop(url, NetlocEnd(url) - 1)]
    ELSE [netloc |-> <<>>, url |-> url]

\* netloc.partition("[")[2].partition("]")[0]
BracketedHost(netloc) == SplitAt(SplitAt(netloc, "[").tail, "]").head

\* ipaddress accepts the host as an IPv6 address; of the bracketed hosts of
\* the model's URLs, "::1" is one and "e" is none
IsIPv6Address(host) == host = <<":", ":", "1">>

\* the checks of the netloc: "[" without "]" or "]" without "[" is an
\* invalid IPv6 URL, and an interpreter that validates bracketed hosts
\* (CPython does from 3.11.4 on, and not before) rejects one that is no address
NetlocRaises(netloc, checks_host) ==
    \/ (Find(netloc, "[", 1) > 0) # (Find(netloc, "]", 1) > 0)
    \/ /\ Find(netloc, "[", 1) > 0
       /\ checks_host
       /\ ~IsIPv6Address(BracketedHost(netloc))

\* the query step: url, query = url.split("?", 1)
SplitQuery(scheme, netloc, q, fragment) ==
    [t |-> "SplitResult", scheme |-> scheme, netloc |-> netloc, path |-> q.head,
     query |-> q.tail, fragment |-> fragment]

\* the fragment step: url, fragment = url.split("#", 1)
SplitFragment(scheme, netloc, f) ==
    SplitQuery(scheme, netloc, SplitAt(f.head, "?"), f.tail)

SplitNetloc(scheme, n, checks_host) ==
    IF NetlocRaises(n.netloc, checks_host) THEN Raised("ValueError")
    ELSE SplitFragment(scheme, n.netloc, SplitAt(n.url, "#"))

AfterScheme(s, checks_host) == SplitNetloc(s.scheme, splitnetloc(s.url), checks_host)

\* urlsplit(url): scheme, netloc, fragment and query are cut off in turn
urlsplit(url, checks_host) == AfterScheme(SplitScheme(url), checks_host)

\* _splitparams(url): the parameters start at the first ";" of the last segment
ParamsAt(url) ==
    IF RFind(url, "/") > 0 THEN Find(url, ";", RFind(url, "/")) ELSE Find(url, ";", 1)

splitparams(url) ==
    IF ParamsAt(url) = 0 THEN [path |-> url, params |-> <<>>]
    ELSE [path |-> Take(url, ParamsAt(url) - 1), params |-> Drop(url, ParamsAt(url))]

\* urlparse's own step on the result r of urlsplit
ParseResult(r, p) ==
    [t |-> "ParseResult", scheme |-> r.scheme, netloc |-> r.netloc,
     path |-> p.path, params |-> p.params, query |-> r.query,
     fragment |-> r.fragment]

AfterSplit(r) ==
    IF r.t = "raise" THEN r
    ELSE IF r.scheme \in uses_params /\ Find(r.path, ";", 1) > 0
    THEN ParseResult(r, splitparams(r.path))
    ELSE ParseResult(r, [path |-> r.path, params |-> <<>>])

\* urlparse(value): None decodes to an empty bytes result, a str is split,
\* and any other value has no decode() (AttributeError)
urlparse(value, checks_host) ==
    IF value.t = "None"
    THEN [t |-> "ParseResultBytes", scheme |-> <<>>, netloc |-> <<>>, path |-> <<>>,
          params |-> <<>>, query |-> <<>>, fragment |-> <<>>]
    ELSE IF value.t # "str" THEN Raised("AttributeError")
    ELSE AfterSplit(urlsplit(value.v, checks_host))

\* a return that puts the query back after the path
ReturnKeepingQuery(parsed) ==
    IF parsed.t = "raise" THEN PyNone
    ELSE IF parsed.t = "ParseResultBytes" THEN PyBytes(parsed.netloc \o parsed.path)
    ELSE PyStr(parsed.netloc \o parsed.path
               \o (IF parsed.query = <<>> THEN <<>> ELSE <<"?">> \o parsed.query))

PrepKeepingQuery(value, checks_host) ==
    ReturnKeepingQuery(urlparse(value, checks_host))

\* return parsed.netloc + parsed.path, and None on any exception
NetlocAndPath(parsed) ==
    IF parsed.t = "raise" THEN PyNone
    ELSE IF parsed.t = "ParseResultBytes" THEN PyBytes(parsed.netloc \o parsed.path)
    ELSE PyStr(parsed.netloc \o parsed.path)

\* NoParamURLField.get_prep_value
NoParamURLField_get_prep_value(value, checks_host) ==
    NetlocAndPath(urlparse(value, checks_host))

\* bool(value)
Truthy(value) ==
    CASE value.t = "None" -> FALSE
      [] value.t = "int" -> value.v # <<"0">>
      [] OTHER -> value.v # <<>>

\* a check that accepts a URL as soon as it has either component
CheckEitherComponent(parsed) ==
    IF parsed.t = "raise" THEN [raised |-> parsed.v[1], delegated |-> FALSE]
    ELSE IF ~(parsed.netloc # <<>> \/ parsed.path # <<>>)
    THEN [raised |-> "ValidationError", delegated |-> FALSE]
    ELSE [raised |-> "none", delegated |-> TRUE]

ValidateEitherComponent(value, checks_host) ==
    IF ~Truthy(value) THEN [raised |-> "none", delegated |-> TRUE]
    ELSE CheckEitherComponent(urlparse(value, checks_host))

\* not (urlparse(value).netloc and urlparse(value).path): ValidationError;
\* an exception of urlparse leaves validate as it is
CheckComponents(parsed) ==
    IF parsed.t = "raise" THEN [raised |-> parsed.v[1], delegated |-> FALSE]
    ELSE IF ~(parsed.netloc # <<>> /\ parsed.path # <<>>)
    THEN [raised |-> "ValidationError", delegated |-> FALSE]
    ELSE [raised |-> "none", delegated |-> TRUE]

\* NoParamURLField.validate: what it raises itself, and whether it reaches
\* super().validate(value, model_instance)
NoParamURLField_validate(value, checks_host) ==
    IF ~Truthy(value) THEN [raised |-> "none", delegated |-> TRUE]
    ELSE CheckComponents(urlparse(value, checks_host))

(* The inputs of the field methods *)

MaxLen == 3

\* a space, a tab, a lower-case and an upper-case letter, a digit, sharp s
Chars == {" ", "\t", "a", "B", "1", "U+00DF"}

Strings == UNION {[1..n -> Chars] : n \in 0..MaxLen}

\* the example of the UpperTextField docstring
UpperDocExample ==
    <<" ", "h", "e", "l", "l", "o", " ", "w", "o", "r", "l", "d", " ">>
UpperDocResult ==
    <<"H", "E", "L", "L", "O", " ", "W", "O", "R", "L", "D">>

UpperInputs ==
    {PyStr(s) : s \in Strings}
    \cup {PyStr(UpperDocExample), PyNone}
    \cup {PyRaising(exc) : exc \in {"TypeError", "AttributeError", "ValueError"}}

\* The pieces of a URL scheme://netloc/path;parameters?query#fragment, each
\* written with its delimiter; parameters need a path to follow.
URLParts ==
    {p \in [scheme : {<<>>, <<"h", "t", "t", "p">>, <<"H", "T", "T", "P">>,
                      <<"f", "t", "p", "s">>},
            netloc : {<<>>, <<"e", ".", "c">>, <<"u", "@", "e", ".", "c", ":", "8">>,
                      <<"[", "e">>, <<"[", "e", "]">>, <<"[", ":", ":", "1", "]">>},
            path : {<<>>, <<"/">>, <<"/", "a">>, <<"/", "a", ";", "x", "/", "b">>},
            params : {<<>>, <<";", "p">>},
            query : {<<>>, <<"?", "q", "=", "1">>},
            fragment : {<<>>, <<"#", "f">>, <<"#", "f", "?", "x">>}] :
        p.path = <<>> => p.params = <<>>}

Unparse(p) ==
    (IF p.scheme = <<>> THEN <<>> ELSE p.scheme \o <<":">>) \o <<"/", "/">>
    \o p.netloc \o p.path \o p.params \o p.query \o p.fragment

\* the example of the class docstring
DocExampleURL ==
    <<"h", "t", "t", "p", "s", ":", "/", "/", "e", "x", "a", "m", "p", "l", "e", ".", "c", "o", "m", "/", "p", "a", "t", "h", "?", "q", "u", "e", "r", "y", "=", "1", "#", "f", "r", "a", "g", "m", "e", "n", "t">>
DocExampleResult ==
    <<"e", "x", "a", "m", "p", "l", "e", ".", "c", "o", "m", "/", "p", "a", "t", "h">>

URLInputs ==
    {PyStr(Unparse(p)) : p \in URLParts}
    \cup {PyStr(DocExampleURL), PyStr(<<>>), PyNone, PyInt(<<"5">>)}

InitField == fieldCall = NoCall

\* A field method is a function of its argument: a run of the field
\* specification starts with the argument chosen and makes the one call.
InitFieldInput ==
    fieldCall \in {[op |-> "input", arg |-> value] : value \in UpperInputs \cup URLInputs}

\* field.get_prep_value(value) of an UpperTextField
UpperPrep ==
    /\ fieldCall.op = "input"
    /\ fieldCall.arg \in UpperInputs
    /\ fieldCall' = [op |-> "UpperTextField.get_prep_value", arg |-> fieldCall.arg,
                     ret |-> UpperTextField_get_prep_value(fieldCall.arg)]
    /\ FieldFrame

\* field.get_prep_value(value) of a NoParamURLField
NoParamPrep ==
    \E checks_host \in BOOLEAN :
        /\ fieldCall.op = "input"
        /\ fieldCall.arg \in URLInputs
        /\ fieldCall' = [op |-> "NoParamURLField.get_prep_value",
                         arg |-> fieldCall.arg,
                         ret |-> NoParamURLField_get_prep_value(fieldCall.arg,
                                                                checks_host)]
        /\ FieldFrame

\* field.validate(value, model_instance) of a NoParamURLField
NoParamValidate ==
    \E checks_host \in BOOLEAN :
        /\ fieldCall.op = "input"
        /\ fieldCall.arg \in URLInputs
        /\ fieldCall' = [op |-> "NoParamURLField.validate", arg |-> fieldCall.arg,
                         ret |-> NoParamURLField_validate(fieldCall.arg, checks_host)]
        /\ FieldFrame

----------------------------------------------------------------------------
(* management/commands/truncate_table.py and scripts/truncate_table.py *)
(* A statement or a message is the sequence of the pieces it is built of. *)

MaxArgs == 3

TableNames == {"auth_user", "restart_identity", "cascade"}

\* the words a runscript invocation may be given
ScriptWords == {"auth_user", "restart_identity", "cascade"}

ScriptArgs == UNION {[1..n -> ScriptWords] : n \in 0..MaxArgs}

\* how the database answers: the statement runs, connection.cursor() raises,
\* or cursor.execute() raises
DbOutcomes == {"ok", "cursor_error", "execute_error"}

\* the f-string form of a bool
BoolStr(b) == IF b THEN "True" ELSE "False"

\* a query built with CASCADE ahead of RESTART IDENTITY
QueryCascadeFirst(table_name, restart_identity, cascade) ==
    <<"TRUNCATE TABLE \"", table_name, "\"">>
    \o (IF cascade THEN <<" CASCADE">> ELSE <<>>)
    \o (IF restart_identity THEN <<" RESTART IDENTITY">> ELSE <<>>)
    \o <<";">>

\* the statement both the command and the script build, clause by clause
truncate_query(table_name, restart_identity, cascade) ==
    LET q0 == <<"TRUNCATE TABLE \"", table_name, "\"">>
        q1 == IF restart_identity THEN q0 \o <<" RESTART IDENTITY">> ELSE q0
        q2 == IF cascade THEN q1 \o <<" CASCADE">> ELSE q1
    IN  q2 \o <<";">>

SuccessMessage(table_name, restart_identity, cascade) ==
    <<"Successfully truncated table \"", table_name, "\" with options: ",
      "RESTART IDENTITY=", BoolStr(restart_identity), ", CASCADE=",
      BoolStr(cascade), ".">>

ErrorMessage(table_name) ==
    <<"Error truncating table '", table_name, "': ", "<exception>">>

UsageMessage ==
    <<"Usage: python manage.py runscript truncate_table --script-args table_name [restart_identity] [cascade]">>

\* a try block whose handler misses the errors of connection.cursor()
TryExecuteCursorUnreported(query, db) ==
    [executed |-> IF db = "cursor_error" THEN <<>> ELSE <<query>>,
     raised |-> db = "execute_error"]

\* with connection.cursor() as cursor: cursor.execute(query), inside try; the
\* errors are the database's, which "except Exception" catches
TryExecute(query, db) ==
    [executed |-> IF db = "cursor_error" THEN <<>> ELSE <<query>>,
     raised |-> db # "ok"]

InitTrunc ==
    /\ truncCall = NoCall
    /\ executed = <<>>
    /\ stdout = <<>>
    /\ stderr = <<>>

\* Command.handle(table_name=..., restart_identity=..., cascade=...)
CommandHandle ==
    \E table_name \in TableNames, restart_identity \in BOOLEAN, cascade \in BOOLEAN,
       db \in DbOutcomes :
        LET query == truncate_query(table_name, restart_identity, cascade)
            done == TryExecute(query, db)
        IN  /\ truncCall = NoCall
            /\ truncCall' = [op |-> "command", table_name |-> table_name,
                             restart_identity |-> restart_identity,
                             cascade |-> cascade, db |-> db]
            /\ executed' = done.executed
            /\ stdout' = IF done.raised THEN <<>>
                         ELSE <<SuccessMessage(table_name, restart_identity, cascade)>>
            /\ stderr' = IF done.raised THEN <<ErrorMessage(table_name)>> ELSE <<>>
            /\ TruncFrame

\* run(*args) of the runscript script: both messages are printed
ScriptRun ==
    \E args \in ScriptArgs, db \in DbOutcomes :
        /\ truncCall = NoCall
        /\ truncCall' = [op |-> "script", args |-> args, db |-> db]
        /\ IF Len(args) < 1
           THEN /\ executed' = <<>>
                /\ stdout' = <<UsageMessage>>
           ELSE LET table_name == args[1]
                    restart_identity == \E i \in 1..Len(args) : args[i] = "restart_identity"
                    cascade == \E i \in 1..Len(args) : args[i] = "cascade"
                    query == truncate_query(table_name, restart_identity, cascade)
                    done == TryExecute(query, db)
                IN  /\ executed' = done.executed
                    /\ stdout' = IF done.raised THEN <<ErrorMessage(table_name)>>
                                 ELSE <<SuccessMessage(table_name, restart_identity,
                                                       cascade)>>
        /\ stderr' = <<>>
        /\ TruncFrame

----------------------------------------------------------------------------
(* Python float arithmetic: round((a / b) * 100, 2) on IEEE 754 binary64.    *)
(* A positive float is [m, f]: m its significant bits, most significant     *)
(* first, of which the last f stand after the binary point; its value is    *)
(* NatOf(m) / 2^f.  Every operation rounds to Precision bits, to nearest,   *)
(* ties to even.                                                            *)

Precision == 53

\* the width of a Python int of the model, and of a digit of the long division
IntBits == 30
LimbBits == 9

\* the binary digits of n in exactly width places
FixedBits(n, width) == [i \in 1..width |-> (n \div 2^(width - i)) % 2]

AnyOne(bits) == \E i \in 1..Len(bits) : bits[i] = 1

\* a bit string without its leading zeros
Significant(bits) ==
    IF ~AnyOne(bits) THEN <<>>
    ELSE LET first == CHOOSE i \in 1..Len(bits) :
                          bits[i] = 1 /\ \A j \in 1..(i - 1) : bits[j] = 0
         IN  SubSeq(bits, first, Len(bits))

\* the binary digits of a natural number, <<>> for 0
BitsOf(n) == Significant(FixedBits(n, IntBits))

RECURSIVE NatOf(_)
NatOf(bits) ==
    IF bits = <<>> THEN 0
    ELSE 2 * NatOf(SubSeq(bits, 1, Len(bits) - 1)) + bits[Len(bits)]

\* a bit string lengthened to width places
Padded(bits, width) == [i \in 1..(width - Len(bits)) |-> 0] \o bits

\* the sum of two bit strings: place i receives a carry when some lower place
\* generates one and every place in between passes it on
AddBits(a, b) ==
    LET n == (IF Len(a) > Len(b) THEN Len(a) ELSE Len(b)) + 1
        x == Padded(a, n)
        y == Padded(b, n)
        carry(i) == \E j \in (i + 1)..n :
                        /\ x[j] + y[j] = 2
                        /\ \A k \in (i + 1)..(j - 1) : x[k] + y[k] = 1
    IN  Significant([i \in 1..n |->
                        (x[i] + y[i] + IF carry(i) THEN 1 ELSE 0) % 2])

Increment(bits) == AddBits(bits, <<1>>)

RECURSIVE MulBits(_, _)
\* the exact product of m and the number whose binary digits are nbits
MulBits(m, nbits) ==
    IF nbits = <<>> THEN <<>>
    ELSE LET high == MulBits(m, SubSeq(nbits, 1, Len(nbits) - 1))
             twice == IF high = <<>> THEN <<>> ELSE Append(high, 0)
         IN  IF nbits[Len(nbits)] = 1 THEN AddBits(twice, m) ELSE twice

\* round the exact value bits / 2^f (plus something smaller than the last bit
\* when sticky) to Precision significant bits
RoundFloat(bits, f, sticky) ==
    IF Len(bits) <= Precision THEN [m |-> bits, f |-> f]
    ELSE LET keep == SubSeq(bits, 1, Precision)
             rest == SubSeq(bits, Precision + 1, Len(bits))
             more == sticky \/ AnyOne(SubSeq(rest, 2, Len(rest)))
             up == rest[1] = 1 /\ (more \/ keep[Precision] = 1)
             m == IF up THEN Increment(keep) ELSE keep
             g == f - Len(rest)
         IN  IF Len(m) > Precision
             THEN [m |-> SubSeq(m, 1, Precision), f |-> g - 1]
             ELSE [m |-> m, f |-> g]

RECURSIVE Quotient(_, _, _)
\* long division: the next n digits of r / t in base 2^LimbBits, as bits, and
\* the remainder left
Quotient(r, t, n) ==
    IF n = 0 THEN [bits |-> <<>>, r |-> r]
    ELSE LET later == Quotient((r * 2^LimbBits) % t, t, n - 1)
         IN  [bits |-> FixedBits((r * 2^LimbBits) \div t, LimbBits) \o later.bits,
              r |-> later.r]

\* the number of places a must be shifted left to reach b
RECURSIVE ShiftTo(_, _)
ShiftTo(a, b) == IF a >= b THEN 0 ELSE 1 + ShiftTo(2 * a, b)

\* a / b for integers a > 0 and b > 0
FloatDiv(a, b) ==
    LET s == ShiftTo(a, b)
        whole == BitsOf((a * 2^s) \div b)
        limbs == (Precision \div LimbBits) + 1
        q == Quotient((a * 2^s) % b, b, limbs)
    IN  RoundFloat(whole \o q.bits, s + limbs * LimbBits, q.r # 0)

\* x * n for a float x and a natural number n
FloatMul(x, n) == RoundFloat(MulBits(x.m, BitsOf(n)), x.f, FALSE)

\* the bits of an exact value bits / 2^f before and after the binary point
WholePart(bits, f) ==
    IF f >= Len(bits) THEN <<>> ELSE SubSeq(bits, 1, Len(bits) - f)

FractionPart(bits, f) ==
    IF f >= Len(bits) THEN [i \in 1..(f - Len(bits)) |-> 0] \o bits
    ELSE SubSeq(bits, Len(bits) - f + 1, Len(bits))

\* round(x, 2) for a float x > 0: the two-decimal number nearest to the exact
\* value of x, ties to even, given as its number of hundredths
round2(x) ==
    LET scaled == MulBits(x.m, BitsOf(100))
        whole == NatOf(WholePart(scaled, x.f))
        frac == FractionPart(scaled, x.f)
        up == /\ frac # <<>>
              /\ frac[1] = 1
              /\ (AnyOne(SubSeq(frac, 2, Len(frac))) \/ whole % 2 = 1)
    IN  IF up THEN whole + 1 ELSE whole

----------------------------------------------------------------------------
(* choices.py: TaskStatusChoices *)

PENDING == <<"P", "E", "N", "D", "I", "N", "G">>
IN_PROGRESS == <<"I", "N", "_", "P", "R", "O", "G", "R", "E", "S", "S">>
COMPLETED == <<"C", "O", "M", "P", "L", "E", "T", "E", "D">>
FAILED == <<"F", "A", "I", "L", "E", "D">>

----------------------------------------------------------------------------
(* models.py: DataImportProgress and DataExtractProgress.  The two classes  *)
(* differ in the names of their counters (total_rows and processed_rows,    *)
(* total_requests and completed_requests), written total and processed      *)
(* here, and in log_request, which only DataExtractProgress has.  A float   *)
(* with two decimals is given as its number of hundredths.                  *)

\* the number of calls two workers make on one record
MaxCalls == 3

Kinds == {"DataImportProgress", "DataExtractProgress"}

\* the in-memory instances of the one row, as two workers hold them
Instances == {"a", "b"}

\* total_rows / total_requests the record is created with
Totals == {0, 2}

\* counts passed to update_progress
Counts == {-1, 1, 3}

\* messages passed to mark_as_failed
ErrorMessages == {"timeout", "bad file"}

\* dict(): progress_log is a dict, a function on its keys
EmptyDict == <<>>

\* d[key] = value
SetItem(d, key, value) ==
    [k \in DOMAIN d \cup {key} |-> IF k = key THEN value ELSE d[k]]

\* the instance objects.create(total...=total) returns: the field defaults
NewProgress(total) ==
    [status |-> PENDING, total |-> total, processed |-> 0,
     progress_log |-> EmptyDict]

\* what a column stores for a field's value
ColumnValue(field, value) ==
    IF field = "status" THEN UpperTextField_get_prep_value(PyStr(value)).v
    ELSE value

\* self.save(update_fields=...): the named columns of the row are written
save(row, self, update_fields) ==
    [f \in DOMAIN row |->
        IF f \in update_fields THEN ColumnValue(f, self[f]) ELSE row[f]]

\* the percentage computed with the quotient cut off, not rounded
PercentageTruncated(self) ==
    IF self.total = 0 THEN 0
    ELSE (self.processed * 10000) \div self.total

\* round((processed / total) * 100, 2) behind the test for a total of 0, in
\* hundredths; a quotient of 0 is 0.0 and a negative one is rounded as its
\* magnitude is
Percentage(processed, total) ==
    IF total = 0 THEN 0
    ELSE IF processed = 0 THEN 0
    ELSE IF processed < 0
         THEN 0 - round2(FloatMul(FloatDiv(0 - processed, total), 100))
         ELSE round2(FloatMul(FloatDiv(processed, total), 100))

\* counters an instance is created with: the docstrings' examples, thirds,
\* and quotients that lie halfway between two hundredths
PercentTotals == {0, 3, 50, 160, 200}
PercentCounts == {0, 1, 2, 23, 25, 50, 201}

\* the method's result for every pair of counters an instance can hold
PercentageOf ==
    [total \in Totals \cup PercentTotals,
     processed \in Counts \cup PercentCounts |-> Percentage(processed, total)]

get_progress_percentage(self) == PercentageOf[self.total, self.processed]

mark_as_started(self) == [self EXCEPT !.status = IN_PROGRESS]

mark_as_completed(self) == [self EXCEPT !.status = COMPLETED]

\* a failure that drops what was logged before
FailedWithFreshLog(self, error_message) ==
    [self EXCEPT !.status = FAILED,
                 !.progress_log = SetItem(EmptyDict, "error", error_message)]

mark_as_failed(self, error_message) ==
    [self EXCEPT !.status = FAILED,
                 !.progress_log = SetItem(@, "error", error_message)]

\* an entry put in front of the list
InsertEntryFirst(self, key, entry) ==
    [self EXCEPT !.progress_log =
        SetItem(@, key, <<entry>> \o DictGet(@, key, <<>>))]

\* self.progress_log[key].append(entry), the list created when missing
AppendEntry(self, key, entry) ==
    [self EXCEPT !.progress_log =
        SetItem(@, key, Append(DictGet(@, key, <<>>), entry))]

log_step(self, step, message, now) ==
    AppendEntry(self, "steps",
                [step |-> step, message |-> message, timestamp |-> now])

log_error(self, step, error, now) ==
    AppendEntry(self, "errors",
                [step |-> step, error |-> error, timestamp |-> now])

log_request(self, endpoint, params, response_status, now) ==
    AppendEntry(self, "requests",
                [endpoint |-> endpoint, params |-> params,
                 status |-> response_status, timestamp |-> now])

update_progress(self, count) == [self EXCEPT !.processed = count]

InitProgress ==
    /\ progressKind = "DataImportProgress"
    /\ progressRow = NewProgress(0)
    /\ progressObj = [i \in Instances |-> NewProgress(0)]
    /\ progressClock = 0
    /\ progressCall = NoCall

\* a record of either class created with a total, held by both workers
InitProgressCreated ==
    /\ progressKind \in Kinds
    /\ \E total \in Totals :
        /\ progressRow = NewProgress(total)
        /\ progressObj = [i \in Instances |-> NewProgress(total)]
    /\ progressClock = 0
    /\ progressCall = NoCall

\* a record of either class created with both counters given
InitProgressValues ==
    /\ progressKind \in Kinds
    /\ \E total \in PercentTotals, processed \in PercentCounts :
        LET created == [NewProgress(total) EXCEPT !.processed = processed] IN
        /\ progressRow = created
        /\ progressObj = [i \in Instances |-> created]
    /\ progressClock = 0
    /\ progressCall = NoCall

\* a method that changes the instance and saves the named fields
Saved(i, self, update_fields, call) ==
    /\ progressClock < MaxCalls
    /\ progressClock' = progressClock + 1
    /\ progressObj' = [progressObj EXCEPT ![i] = self]
    /\ progressRow' = save(progressRow, self, update_fields)
    /\ progressCall' = call
    /\ UNCHANGED progressKind
    /\ ProgressFrame

\* objects.get(pk=...) / refresh_from_db(): the instance is read from the row
GetFromDb ==
    \E i \in Instances :
        /\ progressClock < MaxCalls
        /\ progressClock' = progressClock + 1
        /\ progressObj' = [progressObj EXCEPT ![i] = progressRow]
        /\ progressCall' = [op |-> "get", obj |-> i]
        /\ UNCHANGED <<progressKind, progressRow>>
        /\ ProgressFrame

GetProgressPercentage ==
    \E i \in Instances :
        /\ progressCall' = [op |-> "get_progress_percentage", obj |-> i,
                            ret |-> get_progress_percentage(progressObj[i])]
        /\ UNCHANGED <<progressKind, progressRow, progressObj, progressClock>>
        /\ ProgressFrame

MarkAsStarted ==
    \E i \in Instances :
        /\ Saved(i, mark_as_started(progressObj[i]), {"status"},
                 [op |-> "mark_as_started", obj |-> i])

MarkAsCompleted ==
    \E i \in Instances :
        /\ Saved(i, mark_as_completed(progressObj[i]), {"status"},
                 [op |-> "mark_as_completed", obj |-> i])

MarkAsFailed ==
    \E i \in Instances, error_message \in ErrorMessages :
        /\ Saved(i, mark_as_failed(progressObj[i], error_message),
                 {"status", "progress_log"},
                 [op |-> "mark_as_failed", obj |-> i,
                  error_message |-> error_message])

LogStep ==
    \E i \in Instances :
        /\ Saved(i, log_step(progressObj[i], "read", "file opened", progressClock),
                 {"progress_log"}, [op |-> "log_step", obj |-> i])

LogError ==
    \E i \in Instances :
        /\ Saved(i, log_error(progressObj[i], "row", "bad date", progressClock),
                 {"progress_log"}, [op |-> "log_error", obj |-> i])

\* only DataExtractProgress defines log_request
LogRequest ==
    \E i \in Instances :
        /\ progressKind = "DataExtractProgress"
        /\ Saved(i, log_request(progressObj[i], "users", "page=1", 200,
                                progressClock),
                 {"progress_log"}, [op |-> "log_request", obj |-> i])

\* the counter is a PositiveIntegerField: the database refuses a negative
\* value and save() raises, after the attribute has been assigned
UpdateProgress ==
    \E i \in Instances, count \in Counts :
        /\ IF count < 0
           THEN /\ progressClock < MaxCalls
                /\ progressClock' = progressClock + 1
                /\ progressObj' =
                       [progressObj EXCEPT ![i] = update_progress(@, count)]
                /\ progressCall' = [op |-> "update_progress", obj |-> i,
                                    count |-> count, raised |-> "IntegrityError"]
                /\ UNCHANGED <<progressKind, progressRow>>
                /\ ProgressFrame
           ELSE Saved(i, update_progress(progressObj[i], count), {"processed"},
                      [op |-> "update_progress", obj |-> i, count |-> count,
                       raised |-> "none"])

----------------------------------------------------------------------------
(* choices.py: the choice classes and ChoicesMixin.  A class is named by   *)
(* its name; its choices are the (value, label) pairs of its members in    *)
(* the order of definition.                                                *)

A == <<"A">>
OTHERS == <<"O", "T", "H", "E", "R", "S">>
CREDIT_CARD == <<"C", "R", "E", "D", "I", "T", "_", "C", "A", "R", "D">>
DEBIT_CARD == <<"D", "E", "B", "I", "T", "_", "C", "A", "R", "D">>
PAYPAL == <<"P", "A", "Y", "P", "A", "L">>
APPLE_PAY == <<"A", "P", "P", "L", "E", "_", "P", "A", "Y">>
GOOGLE_PAY == <<"G", "O", "O", "G", "L", "E", "_", "P", "A", "Y">>

\* _("..."): a lazy translation of the message
Lazy(message) == [t |-> "lazy", v |-> <<message>>]

\* cls.choices of every class that uses ChoicesMixin
choices ==
    ("FlatOrPercentChoices" :>
        <<<<DEFAULT, Lazy("---")>>,
          <<<<"F", "L", "A", "T">>, Lazy("Flat")>>,
          <<<<"P", "E", "R", "C", "E", "N", "T">>, Lazy("Percent")>>>>)
    @@ ("TimeFrequencyChoices" :>
        <<<<DEFAULT, Lazy("---")>>,
          <<<<"D", "A", "I", "L", "Y">>, Lazy("Daily")>>,
          <<<<"W", "E", "E", "K", "L", "Y">>, Lazy("Weekly")>>,
          <<<<"M", "O", "N", "T", "H", "L", "Y">>, Lazy("Monthly")>>,
          <<<<"Y", "E", "A", "R", "L", "Y">>, Lazy("Yearly")>>>>)
    @@ ("BooleanChoices" :>
        <<<<DEFAULT, Lazy("---")>>,
          <<<<"T", "R", "U", "E">>, Lazy("Yes")>>,
          <<<<"F", "A", "L", "S", "E">>, Lazy("No")>>>>)
    @@ ("TaskStatusChoices" :>
        <<<<DEFAULT, Lazy("---")>>,
          <<PENDING, Lazy("Pending")>>,
          <<IN_PROGRESS, Lazy("In Progress")>>,
          <<COMPLETED, Lazy("Completed")>>,
          <<FAILED, Lazy("Failed")>>>>)
    @@ ("DataImportStrategy" :>
        <<<<<<"F", "A", "I", "L">>, Lazy("Fail if exists")>>,
          <<<<"R", "E", "P", "L", "A", "C", "E">>, Lazy("Replace existing")>>,
          <<<<"A", "P", "P", "E", "N", "D">>, Lazy("Append to existing")>>>>)
    @@ ("PersonBloodChoices" :>
        <<<<DEFAULT, Lazy("---")>>,
          <<A, Lazy("A")>>,
          <<<<"B">>, Lazy("B")>>,
          <<<<"A", "B">>, Lazy("AB")>>,
          <<<<"O">>, Lazy("O")>>,
          <<OTHERS, Lazy("Others")>>>>)
    @@ ("PersonEducationLevelChoices" :>
        <<<<DEFAULT, Lazy("---")>>,
          <<<<"H", "I", "G", "H", "_", "S", "C", "H", "O", "O", "L">>, Lazy("High School")>>,
          <<<<"A", "S", "S", "O", "C", "I", "A", "T", "E">>, Lazy("Associate Degree")>>,
          <<<<"B", "A", "C", "H", "E", "L", "O", "R">>, Lazy("Bachelor's Degree")>>,
          <<<<"M", "A", "S", "T", "E", "R">>, Lazy("Master's Degree")>>,
          <<<<"D", "O", "C", "T", "O", "R", "A", "L">>, Lazy("Doctoral Degree")>>,
          <<OTHERS, Lazy("Others")>>>>)
    @@ ("PersonEyeColorChoices" :>
        <<<<DEFAULT, Lazy("---")>>,
          <<<<"A", "M", "B", "E", "R">>, Lazy("Amber")>>,
          <<<<"B", "L", "U", "E">>, Lazy("Blue")>>,
          <<<<"B", "R", "O", "W", "N">>, Lazy("Brown")>>,
          <<<<"G", "R", "E", "E", "N">>, Lazy("Green")>>,
          <<<<"G", "R", "E", "Y">>, Lazy("Grey")>>,
          <<<<"H", "A", "Z", "E", "L">>, Lazy("Hazel")>>,
          <<<<"R", "E", "D">>, Lazy("Red")>>,
          <<OTHERS, Lazy("Others")>>>>)
    @@ ("PersonGenderChoices" :>
        <<<<DEFAULT, Lazy("---")>>,
          <<<<"F", "E", "M", "A", "L", "E">>, Lazy("Female")>>,
          <<<<"M", "A", "L", "E">>, Lazy("Male")>>,
          <<OTHERS, Lazy("Others")>>>>)
    @@ ("PersonRaceChoices" :>
        <<<<DEFAULT, Lazy("---")>>,
          <<<<"A", "S", "I", "A", "N">>, Lazy("Asian")>>,
          <<<<"B", "L", "A", "C", "K">>, Lazy("Black Or African American")>>,
          <<<<"H", "I", "S", "P", "A", "N", "I", "C">>, Lazy("Hispanic Or Latino")>>,
          <<<<"I", "N", "D", "I", "A", "N">>, Lazy("American Indian Or Alaska Native")>>,
          <<<<"I", "S", "L", "A", "N", "D", "E", "R">>, Lazy("Native Hawaiian Or Other Pacific Islander")>>,
          <<<<"W", "H", "I", "T", "E">>, Lazy("White")>>,
          <<OTHERS, Lazy("Others")>>>>)
    @@ ("PaymentMethodTypeChoices" :>
        <<<<DEFAULT, Lazy("---")>>,
          <<CREDIT_CARD, Lazy("Credit Card")>>,
          <<DEBIT_CARD, Lazy("Debit Card")>>,
          <<<<"B", "A", "N", "K", "_", "T", "R", "A", "N", "S", "F", "E", "R">>, Lazy("Bank Transfer")>>,
          <<PAYPAL, Lazy("PayPal")>>,
          <<APPLE_PAY, Lazy("Apple Pay")>>,
          <<GOOGLE_PAY, Lazy("Google Pay")>>>>)
    @@ ("TransactionGatewayChoices" :>
        <<<<DEFAULT, Lazy("---")>>,
          <<<<"A", "D", "Y", "E", "N">>, Lazy("Adyen")>>,
          <<<<"A", "L", "I", "P", "A", "Y">>, Lazy("Alipay")>>,
          <<<<"A", "M", "A", "Z", "O", "N">>, Lazy("Amazon")>>,
          <<<<"A", "U", "T", "H", "O", "R", "I", "Z", "E">>, Lazy("Authorize")>>,
          <<<<"B", "R", "A", "I", "N", "T", "R", "E", "E">>, Lazy("Braintree")>>,
          <<<<"C", "Y", "B", "E", "R", "S", "O", "U", "R", "C", "E">>, Lazy("Cybersource")>>,
          <<<<"I", "N", "G", "E", "N", "I", "C", "O">>, Lazy("Ingenico")>>,
          <<PAYPAL, Lazy("Paypal")>>,
          <<<<"S", "Q", "U", "A", "R", "E">>, Lazy("Square")>>,
          <<<<"S", "T", "R", "I", "P", "E">>, Lazy("Stripe")>>,
          <<<<"W", "E", "P", "A", "Y">>, Lazy("Wepay")>>,
          <<<<"W", "O", "R", "L", "D", "P", "A", "Y">>, Lazy("Worldpay")>>>>)
    @@ ("TransactionStateChoices" :>
        <<<<DEFAULT, Lazy("---")>>,
          <<REQUIRES_PAYMENT_METHOD, Lazy("Requires Payment Method")>>,
          <<REQUIRES_CONFIRMATION, Lazy("Requires Confirmation")>>,
          <<REQUIRES_ACTION, Lazy("Requires Action")>>,
          <<PROCESSING, Lazy("Processing")>>,
          <<CANCEL, Lazy("Cancel")>>,
          <<SUCCESS, Lazy("Success")>>>>)
    @@ ("TransactionTypeChoices" :>
        <<<<DEFAULT, Lazy("---")>>,
          <<<<"P", "A", "Y", "M", "E", "N", "T">>, Lazy("Payment")>>,
          <<<<"R", "E", "F", "U", "N", "D">>, Lazy("Refund")>>,
          <<<<"A", "D", "J", "U", "S", "T", "M", "E", "N", "T">>, Lazy("Adjustment")>>,
          <<<<"C", "O", "U", "P", "O", "N">>, Lazy("Coupon")>>,
          <<<<"P", "R", "O", "R", "A", "T", "I", "O", "N">>, Lazy("Proration")>>>>)
    @@ ("TransactionEventTypeChoices" :>
        <<<<DEFAULT, Lazy("---")>>,
          <<<<"C", "R", "E", "A", "T", "E", "D">>, Lazy("Created")>>,
          <<<<"A", "U", "T", "H", "O", "R", "I", "Z", "E", "D">>, Lazy("Authorized")>>,
          <<<<"C", "A", "P", "T", "U", "R", "E", "D">>, Lazy("Captured")>>,
          <<<<"R", "E", "F", "U", "N", "D", "E", "D">>, Lazy("Refunded")>>,
          <<FAILED, Lazy("Failed")>>>>)


ChoiceClasses == DOMAIN choices

PAYMENT_METHODS_REQUIRING_CVV ==
    {<<"C", "R", "E", "D", "I", "T", "_", "C", "A", "R", "D">>,
     <<"D", "E", "B", "I", "T", "_", "C", "A", "R", "D">>}

PAYMENT_METHODS_REQUIRING_3DS ==
    {<<"C", "R", "E", "D", "I", "T", "_", "C", "A", "R", "D">>,
     <<"D", "E", "B", "I", "T", "_", "C", "A", "R", "D">>}

\* ChoicesMixin
get_values(cls) == {choices[cls][i][1] : i \in 1..Len(choices[cls])}

\* a dict comprehension: the last pair with a value gives its label
get_labels(cls) ==
    LET pairs == choices[cls] IN
    [value \in get_values(cls) |->
        pairs[CHOOSE i \in 1..Len(pairs) :
                /\ pairs[i][1] = value
                /\ \A j \in (i + 1)..Len(pairs) : pairs[j][1] # value][2]]

is_valid(cls, value) == value \in get_values(cls)

get_label(cls, value) == DictGet(get_labels(cls), value, PyNone)

\* the choices without their first entry, whatever its value
ChoicesWithoutFirst(cls) == Tail(choices[cls])

IsNotDefault(pair) == pair[1] # <<>>

exclude_default(cls) == SelectSeq(choices[cls], IsNotDefault)

\* TaskStatusChoices
is_terminal_state(status) == status \in {COMPLETED, FAILED}

\* every status that is not terminal taken as active
IsNotTerminal(status) == ~is_terminal_state(status)

is_active_state(status) == status \in {PENDING, IN_PROGRESS}

\* PaymentMethodTypeChoices
requires_cvv(method) == method \in PAYMENT_METHODS_REQUIRING_CVV

\* 3D Secure asked of every method but the bank transfer
RequiresUnlessTransfer(method) ==
    method \in {CREDIT_CARD, DEBIT_CARD, PAYPAL, APPLE_PAY, GOOGLE_PAY}

requires_3ds(method) == method \in PAYMENT_METHODS_REQUIRING_3DS

card_methods == {CREDIT_CARD, DEBIT_CARD}

digital_wallet_methods == {PAYPAL, APPLE_PAY, GOOGLE_PAY}

\* the values handed to the class methods: every choice value of every class,
\* a value in lower case, a member's name that is not its value, and a string
\* no class knows
ChoiceValues ==
    UNION {get_values(cls) : cls \in ChoiceClasses}
    \cup {<<"c", "o", "m", "p", "l", "e", "t", "e", "d">>,
          <<"E", "L", "E", "C", "T", "R", "O", "N", "I", "C", "_", "B", "A", "N",
            "K", "_", "T", "R", "A", "N", "S", "F", "E", "R">>,
          <<"U", "N", "K", "N", "O", "W", "N">>}

InitChoice ==
    /\ choiceCall = NoCall
    /\ choiceRet = EmptyDict

\* a class and a value are picked; the methods are then called on them
InitChoiceInput ==
    /\ choiceCall \in {[op |-> "input", cls |-> cls, arg |-> value] :
                         cls \in ChoiceClasses, value \in ChoiceValues}
    /\ choiceRet = EmptyDict

\* the method named op returns value
Returned(op, value) ==
    /\ choiceCall.op = "input"
    /\ op \notin DOMAIN choiceRet
    /\ choiceRet' = SetItem(choiceRet, op, value)
    /\ UNCHANGED choiceCall
    /\ ChoiceFrame

IsValid == Returned("is_valid", is_valid(choiceCall.cls, choiceCall.arg))

GetLabel == Returned("get_label", get_label(choiceCall.cls, choiceCall.arg))

ExcludeDefault == Returned("exclude_default", exclude_default(choiceCall.cls))

IsTerminalState ==
    /\ choiceCall.op = "input" /\ choiceCall.cls = "TaskStatusChoices"
    /\ Returned("is_terminal_state", is_terminal_state(choiceCall.arg))

IsActiveState ==
    /\ choiceCall.op = "input" /\ choiceCall.cls = "TaskStatusChoices"
    /\ Returned("is_active_state", is_active_state(choiceCall.arg))

RequiresCvv ==
    /\ choiceCall.op = "input" /\ choiceCall.cls = "PaymentMethodTypeChoices"
    /\ Returned("requires_cvv", requires_cvv(choiceCall.arg))

Requires3ds ==
    /\ choiceCall.op = "input" /\ choiceCall.cls = "PaymentMethodTypeChoices"
    /\ Returned("requires_3ds", requires_3ds(choiceCall.arg))

CardMethods ==
    /\ choiceCall.op = "input" /\ choiceCall.cls = "PaymentMethodTypeChoices"
    /\ Returned("card_methods", card_methods)

DigitalWalletMethods ==
    /\ choiceCall.op = "input" /\ choiceCall.cls = "PaymentMethodTypeChoices"
    /\ Returned("digital_wallet_methods", digital_wallet_methods)

----------------------------------------------------------------------------
(* admin.py: django_meta_get_fields and its two wrappers.  A model is the   *)
(* sequence _meta.get_fields() returns; a field has a name and a class.     *)

MaxFields == 2
MaxTypes == 2

\* the classes of Django a field's class derives from, itself included
Mro ==
    ("AutoField" :> {"AutoField", "IntegerField", "Field"})
    @@ ("CharField" :> {"CharField", "Field"})
    @@ ("OneToOneField" :>
            {"OneToOneField", "ForeignKey", "ForeignObject", "RelatedField",
             "Field"})
    @@ ("ManyToManyField" :> {"ManyToManyField", "RelatedField", "Field"})
    @@ ("OneToOneRel" :> {"OneToOneRel", "ManyToOneRel", "ForeignObjectRel"})

\* the fields models are made of: concrete fields, relations and a reverse
\* relation
ModelFields ==
    {[name |-> "id", type |-> "AutoField"],
     [name |-> "title", type |-> "CharField"],
     [name |-> "owner", type |-> "OneToOneField"],
     [name |-> "tags", type |-> "ManyToManyField"],
     [name |-> "profile", type |-> "OneToOneRel"]}

Models ==
    {model \in UNION {[1..n -> ModelFields] : n \in 0..MaxFields} :
        \A i, j \in 1..Len(model) : i # j => model[i] # model[j]}

\* the classes a caller lists, among them those of constants.py
ListedTypes ==
    {"Field", "ForeignKey", "ManyToManyField", "ManyToOneRel", "ArrayField"}

FieldTypeLists == UNION {[1..n -> ListedTypes] : n \in 0..MaxTypes}

\* isinstance(field, tuple(field_types))
isinstance(field, types) ==
    \E k \in 1..Len(types) : types[k] \in Mro[field.type]

\* the names of the fields of a sequence of fields
FieldNames(fields) == [i \in 1..Len(fields) |-> fields[i].name]

\* the filter with type(field) in field_types for isinstance
FieldsOfExactType(django_object, field_types, exclude) ==
    LET Keep(field) ==
            exclude # (\E k \in 1..Len(field_types) : field_types[k] = field.type)
    IN  FieldNames(SelectSeq(django_object, Keep))

django_meta_get_fields(django_object, field_types, exclude) ==
    LET Keep(field) == exclude # isinstance(field, field_types)
    IN  FieldNames(SelectSeq(django_object, Keep))

django_meta_get_fields_exclude(django_object, to_exclude) ==
    django_meta_get_fields(django_object, to_exclude, TRUE)

django_meta_get_fields_include(django_object, to_include) ==
    django_meta_get_fields(django_object, to_include, FALSE)

InitAdmin ==
    /\ adminCall = NoCall
    /\ adminRet = EmptyDict

\* a model and a list of field classes are picked
InitAdminInput ==
    /\ adminCall \in {[op |-> "input", model |-> model, field_types |-> types] :
                        model \in Models, types \in FieldTypeLists}
    /\ adminRet = EmptyDict

\* the helper named op returns names
AdminReturned(op, names) ==
    /\ adminCall.op = "input"
    /\ op \notin DOMAIN adminRet
    /\ adminRet' = SetItem(adminRet, op, names)
    /\ UNCHANGED adminCall
    /\ AdminFrame

DjangoMetaGetFields ==
    \E exclude \in BOOLEAN :
        /\ adminCall.op = "input"
        /\ AdminReturned(IF exclude THEN "exclude=True" ELSE "exclude=False",
                         django_meta_get_fields(adminCall.model,
                                                adminCall.field_types, exclude))

DjangoMetaGetFieldsExclude ==
    /\ adminCall.op = "input"
    /\ AdminReturned("django_meta_get_fields_exclude",
                     django_meta_get_fields_exclude(adminCall.model,
                                                    adminCall.field_types))

DjangoMetaGetFieldsInclude ==
    /\ adminCall.op = "input"
    /\ AdminReturned("django_meta_get_fields_include",
                     django_meta_get_fields_include(adminCall.model,
                                                    adminCall.field_types))

----------------------------------------------------------------------------
(* validators.py: is_numeric = RegexValidator(r"^[0-9]*$", ...) *)

\* the characters of the strings validated: two digits, a letter, a sign and
\* a line feed
NumericChars == {"0", "7", "a", "-", "\n"}

\* the examples of the docstring
NumericDocValid == {<<>>, <<"0">>, <<"0", "0", "1">>, <<"1", "2", "3">>}
NumericDocInvalid ==
    {<<"1", "2", "a">>, <<"-", "1">>, <<"1", ".", "0">>,
     <<"1", ",", "0", "0", "0">>}

NumericInputs ==
    {PyStr(s) : s \in UNION {[1..n -> NumericChars] : n \in 0..MaxLen}
                      \cup NumericDocValid \cup NumericDocInvalid}
    \cup {PyInt(<<"7">>), PyNone}

\* the number of characters [0-9]* takes when it takes all it can
DigitRun(s) ==
    CHOOSE n \in 0..Len(s) :
        /\ \A i \in 1..n : s[i] \in Digits
        /\ n < Len(s) => s[n + 1] \notin Digits

\* "$" after k characters: at the end, or before a line feed that ends the
\* string
AtEndOfString(s, k) ==
    \/ k = Len(s)
    \/ k = Len(s) - 1 /\ s[Len(s)] = "\n"

\* regex.search(s): "^" holds at the start only, then [0-9]* gives back
\* characters until "$" holds
regex_search(s) == \E k \in 0..DigitRun(s) : AtEndOfString(s, k)

\* RegexValidator.__call__(value): ValidationError unless str(value) matches
is_numeric(value) ==
    IF regex_search(str(value).v) THEN PyNone ELSE Raised("ValidationError")

InitValidator == validatorCall = NoCall

InitValidatorInput ==
    validatorCall \in {[op |-> "input", arg |-> value] : value \in NumericInputs}

IsNumeric ==
    /\ validatorCall.op = "input"
    /\ validatorCall' = [op |-> "is_numeric", arg |-> validatorCall.arg,
                         ret |-> is_numeric(validatorCall.arg)]
    /\ ValidatorFrame

----------------------------------------------------------------------------
(* templatetags/pagination_url.py and templatetags/django_util.py: the two  *)
(* libraries define the same query_transform.  A QueryDict is the sequence  *)
(* of its keys, in the order they were first set, each with its list of     *)
(* values.                                                                  *)

MaxValues == 2

QueryKeys == {<<"p">>, <<"q">>}
QueryValues == {<<"1">>, <<"a", " ">>, <<"&">>}

\* the keyword arguments of the tag: a key of the request and a new one, an
\* int and a str
KwargKeys == {<<"p">>, <<"r">>}
KwargValues == {PyInt(<<"2">>), PyStr(<<"x", "=">>)}

DistinctKeys(entries) ==
    \A i, j \in 1..Len(entries) : i # j => entries[i].key # entries[j].key

ValueLists ==
    UNION {[1..n -> {PyStr(v) : v \in QueryValues}] : n \in 1..MaxValues}

QueryDicts ==
    {q \in UNION {[1..n -> [key : QueryKeys, list : ValueLists]] :
                     n \in 0..Cardinality(QueryKeys)} : DistinctKeys(q)}

Kwargs ==
    {kw \in UNION {[1..n -> [key : KwargKeys, value : KwargValues]] :
                      n \in 0..Cardinality(KwargKeys)} : DistinctKeys(kw)}

\* QueryDict.copy(): a deep copy, equal to the original
copy(query) == query

HasKey(query, key) == \E i \in 1..Len(query) : query[i].key = key

\* value added to the values the key has
appendlist(query, key, value) ==
    IF HasKey(query, key)
    THEN [i \in 1..Len(query) |->
            IF query[i].key = key
            THEN [key |-> key, list |-> Append(query[i].list, value)]
            ELSE query[i]]
    ELSE Append(query, [key |-> key, list |-> <<value>>])

\* query[key] = value: the key's list becomes [value]
setitem(query, key, value) ==
    IF HasKey(query, key)
    THEN [i \in 1..Len(query) |->
            IF query[i].key = key THEN [key |-> key, list |-> <<value>>]
            ELSE query[i]]
    ELSE Append(query, [key |-> key, list |-> <<value>>])

RECURSIVE SetItems(_, _)
\* for k, v in kwargs.items(): query[k] = v
SetItems(query, kwargs) ==
    IF kwargs = <<>> THEN query
    ELSE SetItems(setitem(query, Head(kwargs).key, Head(kwargs).value),
                  Tail(kwargs))

\* what quote_plus writes for a character that is not a letter, a digit or
\* one of "_.-~"
PercentCodes ==
    (" " :> <<"+">>)
    @@ ("&" :> <<"%", "2", "6">>)
    @@ ("=" :> <<"%", "3", "D">>)
    @@ ("+" :> <<"%", "2", "B">>)
    @@ ("%" :> <<"%", "2", "5">>)

RECURSIVE quote_plus(_)
quote_plus(s) ==
    IF s = <<>> THEN <<>>
    ELSE (IF Head(s) \in DOMAIN PercentCodes THEN PercentCodes[Head(s)]
          ELSE <<Head(s)>>) \o quote_plus(Tail(s))

\* urllib's urlencode({k: v}) of one key and one value
EncodePair(key, value) == quote_plus(key) \o <<"=">> \o quote_plus(str(value).v)

RECURSIVE EncodedPairs(_)
\* one encoded pair for every value of every key, in order
EncodedPairs(query) ==
    IF query = <<>> THEN <<>>
    ELSE [i \in 1..Len(Head(query).list) |->
              EncodePair(Head(query).key, Head(query).list[i])]
         \o EncodedPairs(Tail(query))

RECURSIVE Join(_, _)
\* sep.join(parts)
Join(parts, sep) ==
    IF parts = <<>> THEN <<>>
    ELSE IF Len(parts) = 1 THEN parts[1]
    ELSE parts[1] \o sep \o Join(Tail(parts), sep)

\* QueryDict.urlencode()
urlencode(query) == Join(EncodedPairs(query), <<"&">>)

\* the result, and request.GET as the call leaves it
query_transform(GET, kwargs) ==
    LET query == SetItems(copy(GET), kwargs)
    IN  [ret |-> urlencode(query), GET |-> GET]

InitTag ==
    /\ requestGET = <<>>
    /\ tagCall = NoCall

\* a request with any query string
InitTagRequest ==
    /\ requestGET \in QueryDicts
    /\ tagCall = NoCall

\* {% query_transform key=value ... %} in a template rendered for the request
QueryTransform ==
    \E kwargs \in Kwargs :
        LET done == query_transform(requestGET, kwargs) IN
        /\ tagCall' = [op |-> "query_transform", GET |-> requestGET,
                       kwargs |-> kwargs, ret |-> done.ret]
        /\ requestGET' = done.GET
        /\ TagFrame

----------------------------------------------------------------------------
(* Specifications *)

Init ==
    InitTxn /\ InitProfile /\ InitField /\ InitTrunc /\ InitProgress
    /\ InitChoice /\ InitAdmin /\ InitValidator /\ InitTag

\* the Transaction model as the library defines it, and the lookup
NextTransaction ==
    \/ CanTransitionTo
    \/ SaveTransactionState
    \/ TransitionIfAllowed

SpecTransaction == Init /\ [][NextTransaction]_vars

\* a transaction whose state is only written the documented way
NextControlled ==
    \/ CanTransitionTo
    \/ TransitionIfAllowed

SpecControlled == Init /\ [][NextControlled]_vars

\* users are created, saved and deleted through the ORM
NextProfile ==
    \/ CreateUser
    \/ SaveUser
    \/ DeleteUser

ProfileInit ==
    InitTxn /\ InitProfileSettings /\ InitField /\ InitTrunc /\ InitProgress
    /\ InitChoice /\ InitAdmin /\ InitValidator /\ InitTag

SpecProfile == ProfileInit /\ [][NextProfile]_vars

\* the methods of the two model fields are called with any input
NextField ==
    \/ UpperPrep
    \/ NoParamPrep
    \/ NoParamValidate

FieldInit ==
    InitTxn /\ InitProfile /\ InitFieldInput /\ InitTrunc /\ InitProgress
    /\ InitChoice /\ InitAdmin /\ InitValidator /\ InitTag

SpecField == FieldInit /\ [][NextField]_vars

\* one invocation of the command or of the script
NextTruncate ==
    \/ CommandHandle
    \/ ScriptRun

SpecTruncate == Init /\ [][NextTruncate]_vars

\* the methods of a progress record are called in any order by two workers
NextProgress ==
    \/ GetFromDb
    \/ GetProgressPercentage
    \/ MarkAsStarted
    \/ MarkAsCompleted
    \/ MarkAsFailed
    \/ LogStep
    \/ LogError
    \/ LogRequest
    \/ UpdateProgress

ProgressInit ==
    InitTxn /\ InitProfile /\ InitField /\ InitTrunc /\ InitProgressCreated
    /\ InitChoice /\ InitAdmin /\ InitValidator /\ InitTag

SpecProgress == ProgressInit /\ [][NextProgress]_vars

\* the percentage of a record is read
NextPercentage ==
    \/ GetProgressPercentage

PercentageInit ==
    InitTxn /\ InitProfile /\ InitField /\ InitTrunc /\ InitProgressValues
    /\ InitChoice /\ InitAdmin /\ InitValidator /\ InitTag

SpecPercentage == PercentageInit /\ [][NextPercentage]_vars

\* the class methods of a choice class are called, each once, on one value
NextChoices ==
    \/ IsValid
    \/ GetLabel
    \/ ExcludeDefault
    \/ IsTerminalState
    \/ IsActiveState
    \/ RequiresCvv
    \/ Requires3ds
    \/ CardMethods
    \/ DigitalWalletMethods

ChoicesInit ==
    InitTxn /\ InitProfile /\ InitField /\ InitTrunc /\ InitProgress
    /\ InitChoiceInput /\ InitAdmin /\ InitValidator /\ InitTag

SpecChoices == ChoicesInit /\ [][NextChoices]_vars

\* the admin helpers are called, each once, on one model and one type list
NextAdmin ==
    \/ DjangoMetaGetFields
    \/ DjangoMetaGetFieldsExclude
    \/ DjangoMetaGetFieldsInclude

AdminInit ==
    InitTxn /\ InitProfile /\ InitField /\ InitTrunc /\ InitProgress
    /\ InitChoice /\ InitAdminInput /\ InitValidator /\ InitTag

SpecAdmin == AdminInit /\ [][NextAdmin]_vars

\* the validator is called on one value
NextValidator ==
    \/ IsNumeric

ValidatorInit ==
    InitTxn /\ InitProfile /\ InitField /\ InitTrunc /\ InitProgress
    /\ InitChoice /\ InitAdmin /\ InitValidatorInput /\ InitTag

SpecValidator == ValidatorInit /\ [][NextValidator]_vars

\* the tag is rendered for one request
NextTag ==
    \/ QueryTransform

TagInit ==
    InitTxn /\ InitProfile /\ InitField /\ InitTrunc /\ InitProgress
    /\ InitChoice /\ InitAdmin /\ InitValidator /\ InitTagRequest

SpecTag == TagInit /\ [][NextTag]_vars

----------------------------------------------------------------------------
(* C1: can_transition_to(current_state, new_state) is True exactly when   *)
(* current_state is a key of TRANSACTION_STATE_TRANSITIONS and new_state   *)
(* is in its adjacency set, and False for every other pair; PROCESSING to  *)
(* SUCCESS is allowed and SUCCESS to PROCESSING is not.                    *)
C1_LookupMatchesTable ==
    /\ txnCall.op = "can_transition_to" =>
          /\ txnCall.ret \in BOOLEAN
          /\ txnCall.ret <=>
                \E key \in DOMAIN TRANSACTION_STATE_TRANSITIONS :
                    /\ key = txnCall.current
                    /\ txnCall.new \in TRANSACTION_STATE_TRANSITIONS[key]
          /\ txnCall.current \notin TransactionStateChoices => ~txnCall.ret
          /\ (txnCall.current = PROCESSING /\ txnCall.new = SUCCESS) => txnCall.ret
          /\ (txnCall.current = SUCCESS /\ txnCall.new = PROCESSING) => ~txnCall.ret

C1_Witness ==
    /\ txnCall.op = "can_transition_to"
    /\ txnCall.current = PROCESSING
    /\ txnCall.new = SUCCESS
    /\ txnCall.ret = TRUE

(* C2: the state column of a Transaction only ever changes from s to t    *)
(* when can_transition_to(s, t) is True.                                   *)
C2_OnlyAllowedChanges ==
    [][txnState' # txnState => can_transition_to(txnState, txnState')]_vars

(* C3: SUCCESS and CANCEL are terminal: the lookup from either is False    *)
(* for every state, and a transaction whose state is written only through  *)
(* allowed transitions never leaves SUCCESS or CANCEL.                     *)
C3_TerminalStates ==
    /\ [](txnCall.op = "can_transition_to" /\ txnCall.current \in {SUCCESS, CANCEL}
            => txnCall.ret = FALSE)
    /\ [](\A s \in StateStrings :
            ~can_transition_to(SUCCESS, s) /\ ~can_transition_to(CANCEL, s))
    /\ [][(txnState \in {SUCCESS, CANCEL}) => (txnState' = txnState)]_vars

C3_Witness ==
    /\ txnState = SUCCESS
    /\ txnCall.op = "can_transition_to"
    /\ txnCall.current = SUCCESS
    /\ txnCall.new = CANCEL
    /\ txnCall.ret = FALSE

(* C4: after any sequence of user creations and saves, every user has     *)
(* exactly one profile, and a save of a stored user adds no profile.       *)
C4_OneProfilePerUser ==
    \A u \in users : Cardinality(ProfilesOf(u.id)) = 1

(* C5: the profile created for a new user has a balance field equal to 0.  *)
C5_BalanceIsZero ==
    \A p \in profiles : "balance" \in DOMAIN p /\ p.balance = 0

(* C6: for every string, UpperTextField.get_prep_value returns the string  *)
(* without its leading and trailing whitespace and with every character    *)
(* uppercased; " hello world " gives "HELLO WORLD".                        *)
C6_Expected(s) ==
    LET keep == {i \in 1..Len(s) : ~IsSpace(s[i])} IN
    IF keep = {} THEN <<>>
    ELSE LET lo == CHOOSE i \in keep : \A j \in keep : i <= j
             hi == CHOOSE i \in keep : \A j \in keep : i >= j
             up[k \in (lo - 1)..hi] ==
                 IF k = lo - 1 THEN <<>> ELSE up[k - 1] \o UpperOf(s[k])
         IN  up[hi]

C6_UpperStripped ==
    (fieldCall.op = "UpperTextField.get_prep_value" /\ fieldCall.arg.t = "str") =>
        /\ fieldCall.ret = PyStr(C6_Expected(fieldCall.arg.v))
        /\ fieldCall.arg.v = UpperDocExample => fieldCall.ret.v = UpperDocResult
        /\ \A i \in 1..Len(fieldCall.ret.v) :
              /\ UpperOf(fieldCall.ret.v[i]) = <<fieldCall.ret.v[i]>>
              /\ i \in {1, Len(fieldCall.ret.v)} => ~IsSpace(fieldCall.ret.v[i])

C6_Witness ==
    /\ fieldCall.op = "UpperTextField.get_prep_value"
    /\ fieldCall.arg = PyStr(<<" ", "a", "\t">>)
    /\ fieldCall.ret = PyStr(<<"A">>)

(* C7: UpperTextField.get_prep_value(None) returns None, and it returns    *)
(* None for every input that cannot be converted to a string.              *)
C7_NoneGivesNone ==
    fieldCall.op = "UpperTextField.get_prep_value" =>
        /\ fieldCall.arg = PyNone => fieldCall.ret = PyNone
        /\ str(fieldCall.arg).t = "raise" => fieldCall.ret = PyNone

(* C8: for every URL, NoParamURLField.get_prep_value returns the netloc    *)
(* followed by the path, without scheme, query and fragment; when parsing  *)
(* raises it returns None, and no exception leaves the method.             *)
C8_ExpectedPath(p) ==
    \* ";parameters" are split off the path for the schemes that use them
    IF p.scheme = <<"f", "t", "p", "s">> THEN p.path \o p.params ELSE p.path

C8_Brackets(p) == {c \in {"[", "]"} : \E i \in 1..Len(p.netloc) : p.netloc[i] = c}

C8_DomainAndPath ==
    fieldCall.op = "NoParamURLField.get_prep_value" =>
        /\ fieldCall.ret.t # "raise"
        /\ fieldCall.arg = PyStr(DocExampleURL) =>
              fieldCall.ret = PyStr(DocExampleResult)
        /\ fieldCall.ret.t = "str" =>
              \A i \in 1..Len(fieldCall.ret.v) : fieldCall.ret.v[i] \notin {"?", "#"}
        /\ \A p \in URLParts :
              fieldCall.arg = PyStr(Unparse(p)) =>
                  CASE Cardinality(C8_Brackets(p)) = 1 -> fieldCall.ret = PyNone
                    [] p.netloc = <<"[", "e", "]">> ->
                          fieldCall.ret \in {PyNone,
                                             PyStr(p.netloc \o C8_ExpectedPath(p))}
                    [] OTHER -> fieldCall.ret = PyStr(p.netloc \o C8_ExpectedPath(p))

C8_Witness ==
    /\ fieldCall.op = "NoParamURLField.get_prep_value"
    /\ fieldCall.arg = PyStr(<<"h", "t", "t", "p", ":", "/", "/", "e", ".", "c",
                               "/", "a", "?", "q", "=", "1", "#", "f">>)
    /\ fieldCall.ret = PyStr(<<"e", ".", "c", "/", "a">>)

(* C9: NoParamURLField.validate raises ValidationError for every non-empty *)
(* value whose parsed URL lacks a netloc or lacks a path; for an empty     *)
(* value and for a value with both it raises nothing of its own and calls  *)
(* the parent's validate.                                                  *)
C9_ValidateOutcome ==
    fieldCall.op = "NoParamURLField.validate" =>
        /\ fieldCall.arg \in {PyStr(<<>>), PyNone} =>
              fieldCall.ret = [raised |-> "none", delegated |-> TRUE]
        /\ fieldCall.arg = PyStr(DocExampleURL) =>
              fieldCall.ret = [raised |-> "none", delegated |-> TRUE]
        /\ fieldCall.ret.delegated <=> fieldCall.ret.raised = "none"
        /\ \A p \in URLParts :
              (fieldCall.arg = PyStr(Unparse(p)) /\ fieldCall.ret.raised # "ValueError")
              => IF p.netloc = <<>> \/ C8_ExpectedPath(p) = <<>>
                 THEN fieldCall.ret = [raised |-> "ValidationError", delegated |-> FALSE]
                 ELSE fieldCall.ret = [raised |-> "none", delegated |-> TRUE]
        /\ \A p \in URLParts :
              (fieldCall.arg = PyStr(Unparse(p)) /\ C8_Brackets(p) = {})
              => fieldCall.ret.raised # "ValueError"

C9_Witness ==
    /\ fieldCall.op = "NoParamURLField.validate"
    /\ fieldCall.arg = PyStr(<<"h", "t", "t", "p", ":", "/", "/", "e", ".", "c">>)
    /\ fieldCall.ret = [raised |-> "ValidationError", delegated |-> FALSE]

(* C10: the truncate-table command executes exactly one statement,       *)
(* TRUNCATE TABLE "<table_name>", then " RESTART IDENTITY" iff that option *)
(* is set, then " CASCADE" iff that option is set, then ";", for each of   *)
(* the four combinations of the options.                                   *)
C10_Statement(table_name, restart_identity, cascade) ==
    CASE ~restart_identity /\ ~cascade ->
            <<"TRUNCATE TABLE \"", table_name, "\"", ";">>
      [] restart_identity /\ ~cascade ->
            <<"TRUNCATE TABLE \"", table_name, "\"", " RESTART IDENTITY", ";">>
      [] ~restart_identity /\ cascade ->
            <<"TRUNCATE TABLE \"", table_name, "\"", " CASCADE", ";">>
      [] restart_identity /\ cascade ->
            <<"TRUNCATE TABLE \"", table_name, "\"", " RESTART IDENTITY",
              " CASCADE", ";">>

\* the claim as stated: every invocation of the command executes one statement
C10_ExactlyOneStatement ==
    truncCall.op = "command" =>
        executed = <<C10_Statement(truncCall.table_name, truncCall.restart_identity,
                                   truncCall.cascade)>>

\* as amended: one statement of that form whenever a cursor is obtained, and
\* none when connection.cursor() raises; for the script an option is set when
\* its word is among the arguments
C10_StatementForm ==
    /\ truncCall.op = "command" =>
          executed = IF truncCall.db = "cursor_error" THEN <<>>
                     ELSE <<C10_Statement(truncCall.table_name,
                                          truncCall.restart_identity,
                                          truncCall.cascade)>>
    /\ (truncCall.op = "script" /\ truncCall.args # <<>>) =>
          executed =
              IF truncCall.db = "cursor_error" THEN <<>>
              ELSE <<C10_Statement(
                        truncCall.args[1],
                        "restart_identity" \in {truncCall.args[i] :
                                                  i \in 1..Len(truncCall.args)},
                        "cascade" \in {truncCall.args[i] :
                                         i \in 1..Len(truncCall.args)})>>
    /\ (truncCall.op = "script" /\ truncCall.args = <<>>) => executed = <<>>

C10_Witness ==
    /\ truncCall.op = "command"
    /\ truncCall.restart_identity /\ truncCall.cascade
    /\ truncCall.db = "ok"
    /\ executed = <<<<"TRUNCATE TABLE \"", "auth_user", "\"", " RESTART IDENTITY",
                      " CASCADE", ";">>>>

(* C11: in the truncate-table command and script an exception raised by   *)
(* connection.cursor() or by cursor.execute() is swallowed: the invocation *)
(* emits the error message and no success message; without an exception it *)
(* emits the success message and no error message; so exactly one of the   *)
(* two is emitted by an invocation that reaches the try block.  The        *)
(* command writes the error to stderr, the script prints both to stdout.   *)
C11_Options ==
    IF truncCall.op = "command"
    THEN [table_name |-> truncCall.table_name,
          restart_identity |-> truncCall.restart_identity,
          cascade |-> truncCall.cascade]
    ELSE [table_name |-> truncCall.args[1],
          restart_identity |-> \E i \in 1..Len(truncCall.args) :
                                  truncCall.args[i] = "restart_identity",
          cascade |-> \E i \in 1..Len(truncCall.args) :
                         truncCall.args[i] = "cascade"]

C11_Success ==
    SuccessMessage(C11_Options.table_name, C11_Options.restart_identity,
                   C11_Options.cascade)

C11_Error == ErrorMessage(C11_Options.table_name)

C11_OneMessage ==
    /\ truncCall.op = "command" =>
          IF truncCall.db = "ok"
          THEN stdout = <<C11_Success>> /\ stderr = <<>>
          ELSE stdout = <<>> /\ stderr = <<C11_Error>>
    /\ (truncCall.op = "script" /\ truncCall.args # <<>>) =>
          /\ stderr = <<>>
          /\ stdout = IF truncCall.db = "ok" THEN <<C11_Success>>
                      ELSE <<C11_Error>>

C11_Witness ==
    /\ truncCall.op = "command"
    /\ truncCall.db = "cursor_error"
    /\ executed = <<>>
    /\ stdout = <<>>
    /\ stderr = <<<<"Error truncating table '", "auth_user", "': ", "<exception>">>>>

(* C12: get_progress_percentage of DataImportProgress and of              *)
(* DataExtractProgress returns a percentage from 0.0 to 100.0 in every     *)
(* state reached by update_progress, mark_as_started, mark_as_completed,   *)
(* mark_as_failed and the log calls, whatever count update_progress is     *)
(* given.                                                                  *)
C12_PercentageInRange ==
    progressCall.op = "get_progress_percentage" =>
        (progressCall.ret >= 0 /\ progressCall.ret <= 10000)

(* C13: get_progress_percentage returns 0.0 whenever the total is 0,       *)
(* whatever the processed count is, and otherwise processed * 100 / total  *)
(* rounded to two decimals: a number of hundredths with no other number of *)
(* hundredths nearer to the exact quotient.  50 of 200 gives 25.0 and 25   *)
(* of 50 gives 50.0.                                                       *)
C13_Nearest(ret, processed, total) ==
    LET error == ret * total - processed * 10000
    IN  2 * (IF error < 0 THEN 0 - error ELSE error) <= total

C13_Rounded ==
    progressCall.op = "get_progress_percentage" =>
        LET self == progressObj[progressCall.obj] IN
        /\ self.total = 0 => progressCall.ret = 0
        /\ self.total # 0 =>
              C13_Nearest(progressCall.ret, self.processed, self.total)
        /\ (self.total = 200 /\ self.processed = 50) => progressCall.ret = 2500
        /\ (self.total = 50 /\ self.processed = 25) => progressCall.ret = 5000

C13_Witness ==
    /\ progressCall.op = "get_progress_percentage"
    /\ progressKind = "DataImportProgress"
    /\ progressObj[progressCall.obj].total = 200
    /\ progressObj[progressCall.obj].processed = 50
    /\ progressCall.ret = 2500

(* C14: mark_as_failed(error_message) sets the instance's status to FAILED *)
(* and its progress_log["error"] to error_message, replacing an earlier    *)
(* one, writes both to the row, and leaves the "steps", "errors" and       *)
(* "requests" lists of the instance's progress_log and the counters of the *)
(* instance and of the row as they were; mark_as_started and               *)
(* mark_as_completed set the status of the instance and of the row to      *)
(* IN_PROGRESS and COMPLETED and change nothing else.                      *)
C14_OthersKept(i) ==
    /\ \A j \in Instances \ {i} : progressObj'[j] = progressObj[j]
    /\ progressKind' = progressKind

C14_StatusOnly(i, status) ==
    /\ progressObj'[i] = [progressObj[i] EXCEPT !.status = status]
    /\ progressRow' = [progressRow EXCEPT !.status = status]
    /\ C14_OthersKept(i)

C14_Failed(i, error_message) ==
    LET before == progressObj[i].progress_log
        after == progressObj'[i].progress_log
    IN  /\ progressObj'[i].status = FAILED
        /\ DOMAIN after = DOMAIN before \cup {"error"}
        /\ after["error"] = error_message
        /\ \A key \in DOMAIN before \ {"error"} : after[key] = before[key]
        /\ progressObj'[i].total = progressObj[i].total
        /\ progressObj'[i].processed = progressObj[i].processed
        /\ progressRow' = [progressRow EXCEPT !.status = FAILED,
                                              !.progress_log = after]
        /\ C14_OthersKept(i)

C14_MarkFrame ==
    [][(progressClock' # progressClock) =>
          /\ (progressCall'.op = "mark_as_failed") =>
                C14_Failed(progressCall'.obj, progressCall'.error_message)
          /\ (progressCall'.op = "mark_as_started") =>
                C14_StatusOnly(progressCall'.obj, IN_PROGRESS)
          /\ (progressCall'.op = "mark_as_completed") =>
                C14_StatusOnly(progressCall'.obj, COMPLETED)]_vars

C14_Witness ==
    /\ progressCall.op = "mark_as_failed"
    /\ progressCall.error_message = "bad file"
    /\ progressObj[progressCall.obj].status = FAILED
    /\ progressObj[progressCall.obj].processed = 1
    /\ "steps" \in DOMAIN progressObj[progressCall.obj].progress_log
    /\ progressObj[progressCall.obj].progress_log["error"] = "bad file"
    /\ progressRow.status = FAILED
    /\ progressRow.progress_log = progressObj[progressCall.obj].progress_log

(* C15: TaskStatusChoices.is_terminal_state(s) is True exactly for        *)
(* COMPLETED and FAILED and is_active_state(s) exactly for PENDING and     *)
(* IN_PROGRESS; no status is both, every status other than the default is  *)
(* one of the two, and "" and an unknown string are neither.               *)
C15_Called(op) == op \in DOMAIN choiceRet

C15_TaskStatusValues ==
    {<<>>, <<"P", "E", "N", "D", "I", "N", "G">>,
     <<"I", "N", "_", "P", "R", "O", "G", "R", "E", "S", "S">>,
     <<"C", "O", "M", "P", "L", "E", "T", "E", "D">>,
     <<"F", "A", "I", "L", "E", "D">>}

C15_TerminalOrActive ==
    LET s == choiceCall.arg
        terminal == choiceRet["is_terminal_state"]
        active == choiceRet["is_active_state"]
    IN  /\ C15_Called("is_terminal_state") =>
              (terminal <=> s \in {<<"C", "O", "M", "P", "L", "E", "T", "E", "D">>,
                                   <<"F", "A", "I", "L", "E", "D">>})
        /\ C15_Called("is_active_state") =>
              (active <=> s \in {<<"P", "E", "N", "D", "I", "N", "G">>,
                                 <<"I", "N", "_", "P", "R", "O", "G", "R", "E",
                                   "S", "S">>})
        /\ (C15_Called("is_terminal_state") /\ C15_Called("is_active_state")) =>
              /\ ~(terminal /\ active)
              /\ (s \in C15_TaskStatusValues /\ s # <<>>) => (terminal \/ active)
              /\ (s = <<>> \/ s \notin C15_TaskStatusValues) =>
                    (~terminal /\ ~active)

C15_Witness ==
    /\ choiceCall.op = "input"
    /\ choiceCall.cls = "TaskStatusChoices"
    /\ choiceCall.arg = <<"F", "A", "I", "L", "E", "D">>
    /\ C15_Called("is_terminal_state") /\ C15_Called("is_active_state")
    /\ choiceRet["is_terminal_state"] = TRUE
    /\ choiceRet["is_active_state"] = FALSE

(* C16: for every choice class using ChoicesMixin and every value v,       *)
(* is_valid(v) is True exactly when v is one of the class's choice values; *)
(* get_label(v) returns the label of v when v is valid and None otherwise; *)
(* exclude_default() returns the choices in their order without the entry  *)
(* whose value is "", and all of them when the class has no such entry.    *)
C16_Positions(pairs, value) == {i \in 1..Len(pairs) : pairs[i][1] = value}

C16_Without(pairs, i) == SubSeq(pairs, 1, i - 1) \o SubSeq(pairs, i + 1, Len(pairs))

C16_MixinMethods ==
    choiceCall.op = "input" =>
        LET pairs == choices[choiceCall.cls]
            at == C16_Positions(pairs, choiceCall.arg)
            blank == C16_Positions(pairs, <<>>)
        IN  /\ Cardinality(at) <= 1 /\ Cardinality(blank) <= 1
            /\ C15_Called("is_valid") => (choiceRet["is_valid"] <=> at # {})
            /\ C15_Called("get_label") =>
                  /\ at = {} => choiceRet["get_label"] = PyNone
                  /\ \A i \in at : choiceRet["get_label"] = pairs[i][2]
            /\ C15_Called("exclude_default") =>
                  /\ blank = {} => choiceRet["exclude_default"] = pairs
                  /\ \A i \in blank :
                        choiceRet["exclude_default"] = C16_Without(pairs, i)

C16_Witness ==
    /\ choiceCall.op = "input"
    /\ choiceCall.cls = "DataImportStrategy"
    /\ choiceCall.arg = <<"R", "E", "P", "L", "A", "C", "E">>
    /\ C15_Called("is_valid") /\ choiceRet["is_valid"] = TRUE
    /\ C15_Called("get_label")
    /\ choiceRet["get_label"] = [t |-> "lazy", v |-> <<"Replace existing">>]
    /\ C15_Called("exclude_default")
    /\ Len(choiceRet["exclude_default"]) = 3

(* C17: PaymentMethodTypeChoices.requires_cvv(m) and requires_3ds(m) are   *)
(* True exactly when m is a member of card_methods() (CREDIT_CARD and      *)
(* DEBIT_CARD), so False for the digital wallet methods, for               *)
(* BANK_TRANSFER, for "" and for unknown strings; card_methods() and       *)
(* digital_wallet_methods() are disjoint.                                  *)
C17_Cards ==
    {<<"C", "R", "E", "D", "I", "T", "_", "C", "A", "R", "D">>,
     <<"D", "E", "B", "I", "T", "_", "C", "A", "R", "D">>}

C17_CardsOnly ==
    /\ C15_Called("requires_cvv") =>
          (choiceRet["requires_cvv"] <=> choiceCall.arg \in C17_Cards)
    /\ C15_Called("requires_3ds") =>
          (choiceRet["requires_3ds"] <=> choiceCall.arg \in C17_Cards)
    /\ C15_Called("card_methods") => choiceRet["card_methods"] = C17_Cards
    /\ (C15_Called("requires_cvv") /\ C15_Called("digital_wallet_methods")
        /\ choiceCall.arg \in choiceRet["digital_wallet_methods"]) =>
          ~choiceRet["requires_cvv"]
    /\ (C15_Called("requires_3ds") /\ C15_Called("digital_wallet_methods")
        /\ choiceCall.arg \in choiceRet["digital_wallet_methods"]) =>
          ~choiceRet["requires_3ds"]
    /\ (C15_Called("card_methods") /\ C15_Called("digital_wallet_methods")) =>
          choiceRet["card_methods"] \cap choiceRet["digital_wallet_methods"] = {}

C17_Witness ==
    /\ choiceCall.op = "input"
    /\ choiceCall.cls = "PaymentMethodTypeChoices"
    /\ choiceCall.arg = <<"P", "A", "Y", "P", "A", "L">>
    /\ C15_Called("requires_cvv") /\ choiceRet["requires_cvv"] = FALSE
    /\ C15_Called("requires_3ds") /\ choiceRet["requires_3ds"] = FALSE
    /\ C15_Called("card_methods")
    /\ C15_Called("digital_wallet_methods")
    /\ choiceCall.arg \in choiceRet["digital_wallet_methods"]

(* C18: django_meta_get_fields(model, field_types, exclude) returns, in    *)
(* the model's field order, the names of the fields that are instances of  *)
(* no listed type when exclude is True and of those that are instances of  *)
(* a listed type when exclude is False; the two results are disjoint and   *)
(* together hold every field exactly once; with an empty type list         *)
(* exclude=True returns every field and exclude=False none.                *)
C18_Listed(i) ==
    \E k \in 1..Len(adminCall.field_types) :
        adminCall.field_types[k] \in Mro[adminCall.model[i].type]

\* the k-th smallest member of a set of positions
C18_Nth(positions, k) ==
    CHOOSE p \in positions : Cardinality({q \in positions : q <= p}) = k

\* the names of the fields at the given positions, in the model's order
C18_NamesAt(positions) ==
    [k \in 1..Cardinality(positions) |->
        adminCall.model[C18_Nth(positions, k)].name]

C18_Occurrences(names, name) ==
    Cardinality({k \in 1..Len(names) : names[k] = name})

C18_Partition ==
    adminCall.op = "input" =>
        LET all == 1..Len(adminCall.model)
            listed == {i \in all : C18_Listed(i)}
            excluded == adminRet["exclude=True"]
            included == adminRet["exclude=False"]
        IN  /\ "exclude=True" \in DOMAIN adminRet =>
                  /\ excluded = C18_NamesAt(all \ listed)
                  /\ adminCall.field_types = <<>> => excluded = C18_NamesAt(all)
            /\ "exclude=False" \in DOMAIN adminRet =>
                  /\ included = C18_NamesAt(listed)
                  /\ adminCall.field_types = <<>> => included = <<>>
            /\ {"exclude=True", "exclude=False"} \subseteq DOMAIN adminRet =>
                  \A i \in all :
                      C18_Occurrences(excluded \o included,
                                      adminCall.model[i].name) = 1
            /\ "django_meta_get_fields_exclude" \in DOMAIN adminRet =>
                  adminRet["django_meta_get_fields_exclude"]
                      = C18_NamesAt(all \ listed)
            /\ "django_meta_get_fields_include" \in DOMAIN adminRet =>
                  adminRet["django_meta_get_fields_include"]
                      = C18_NamesAt(listed)

C18_Witness ==
    /\ adminCall.op = "input"
    /\ adminCall.model = <<[name |-> "profile", type |-> "OneToOneRel"],
                           [name |-> "id", type |-> "AutoField"]>>
    /\ adminCall.field_types = <<"ManyToOneRel">>
    /\ {"exclude=True", "exclude=False"} \subseteq DOMAIN adminRet
    /\ adminRet["exclude=True"] = <<"id">>
    /\ adminRet["exclude=False"] = <<"profile">>

(* C19: the is_numeric validator accepts exactly the strings made of zero  *)
(* or more characters 0-9 ("", "0", "001", "123") and rejects every string *)
(* that holds any other character ("12a", "-1", "1.0", "1,000").           *)
C19_DigitsOnly ==
    (validatorCall.op = "is_numeric" /\ validatorCall.arg.t = "str") =>
        LET s == validatorCall.arg.v IN
        (validatorCall.ret = PyNone)
            <=> (\A i \in 1..Len(s) :
                    s[i] \in {"0", "1", "2", "3", "4", "5", "6", "7", "8", "9"})

(* C20: query_transform(context, **kwargs) returns the URL-encoded query   *)
(* of the request in which every key of kwargs has exactly the one given   *)
(* value and every other parameter keeps its values; request.GET is left   *)
(* unchanged.                                                              *)
C20_Nth(positions, k) ==
    CHOOSE p \in positions : Cardinality({q \in positions : q <= p}) = k

\* the parts of a string between its "&" characters
C20_Segments(s) ==
    IF s = <<>> THEN <<>>
    ELSE LET seps == {i \in 1..Len(s) : s[i] = "&"}
             n == Cardinality(seps) + 1
         IN  [j \in 1..n |->
                SubSeq(s, IF j = 1 THEN 1 ELSE C20_Nth(seps, j - 1) + 1,
                          IF j = n THEN Len(s) ELSE C20_Nth(seps, j) - 1)]

C20_Decode ==
    (<<"2", "6">> :> "&") @@ (<<"3", "D">> :> "=")
    @@ (<<"2", "B">> :> "+") @@ (<<"2", "5">> :> "%")

\* unquote_plus: "+" is a space and "%XX" the character with that code
C20_Unquote(s) ==
    LET heads == {i \in 1..Len(s) :
                    /\ ~(i > 1 /\ s[i - 1] = "%")
                    /\ ~(i > 2 /\ s[i - 2] = "%")}
    IN  [k \in 1..Cardinality(heads) |->
            LET i == C20_Nth(heads, k) IN
            IF s[i] = "+" THEN " "
            ELSE IF s[i] = "%" THEN C20_Decode[<<s[i + 1], s[i + 2]>>]
            ELSE s[i]]

C20_Pair(segment) ==
    LET eq == CHOOSE i \in 1..Len(segment) :
                  segment[i] = "=" /\ \A j \in 1..(i - 1) : segment[j] # "="
    IN  [key |-> C20_Unquote(SubSeq(segment, 1, eq - 1)),
         value |-> C20_Unquote(SubSeq(segment, eq + 1, Len(segment)))]

\* the (key, value) pairs a server reads from the query string
C20_Parsed(s) == [j \in 1..Len(C20_Segments(s)) |-> C20_Pair(C20_Segments(s)[j])]

\* the values of a key, in order
C20_ValuesOf(pairs, key) ==
    LET at == {j \in 1..Len(pairs) : pairs[j].key = key}
    IN  [k \in 1..Cardinality(at) |-> pairs[C20_Nth(at, k)].value]

\* the values the request has for a key, as text
C20_RequestValues(GET, key) ==
    IF \E i \in 1..Len(GET) : GET[i].key = key
    THEN LET entry == GET[CHOOSE i \in 1..Len(GET) : GET[i].key = key]
         IN  [k \in 1..Len(entry.list) |-> entry.list[k].v]
    ELSE <<>>

C20_KwargText(value) ==
    IF value.t = "int" THEN value.v ELSE IF value.t = "str" THEN value.v
    ELSE <<"N", "o", "n", "e">>

C20_QueryReplaced ==
    tagCall.op = "query_transform" =>
        LET pairs == C20_Parsed(tagCall.ret)
            given == {tagCall.kwargs[i].key : i \in 1..Len(tagCall.kwargs)}
        IN  /\ \A i \in 1..Len(tagCall.kwargs) :
                  C20_ValuesOf(pairs, tagCall.kwargs[i].key)
                      = <<C20_KwargText(tagCall.kwargs[i].value)>>
            /\ \A key \in (QueryKeys \cup KwargKeys) \ given :
                  C20_ValuesOf(pairs, key) = C20_RequestValues(tagCall.GET, key)
            /\ \A j \in 1..Len(pairs) : pairs[j].key \in QueryKeys \cup KwargKeys
            /\ requestGET = tagCall.GET

C20_Witness ==
    /\ tagCall.op = "query_transform"
    /\ tagCall.GET = <<[key |-> <<"p">>,
                        list |-> <<PyStr(<<"1">>), PyStr(<<"a", " ">>)>>],
                       [key |-> <<"q">>, list |-> <<PyStr(<<"&">>)>>]>>
    /\ tagCall.kwargs = <<[key |-> <<"p">>, value |-> PyInt(<<"2">>)]>>
    /\ tagCall.ret = <<"p", "=", "2", "&", "q", "=", "%", "2", "6">>
    /\ requestGET = tagCall.GET

(* C21: log_step, log_error and log_request are append-only.  Every call   *)
(* adds exactly one entry, stamped with the time of the call, at the end   *)
(* of the "steps", "errors" or "requests" list of the instance's           *)
(* progress_log, creating the list when the key is missing; the entries    *)
(* that were in the list stay as they were and where they were; every      *)
(* other key of progress_log, the status and the counters of the instance  *)
(* and of the row are unchanged.                                           *)
C21_ListOf(op) ==
    CASE op = "log_step" -> "steps"
      [] op = "log_error" -> "errors"
      [] op = "log_request" -> "requests"

C21_EntryOf(op, now) ==
    CASE op = "log_step" ->
            [step |-> "read", message |-> "file opened", timestamp |-> now]
      [] op = "log_error" ->
            [step |-> "row", error |-> "bad date", timestamp |-> now]
      [] op = "log_request" ->
            [endpoint |-> "users", params |-> "page=1", status |-> 200,
             timestamp |-> now]

C21_Appended(i, op) ==
    LET key == C21_ListOf(op)
        before == progressObj[i].progress_log
        after == progressObj'[i].progress_log
        earlier == IF key \in DOMAIN before THEN before[key] ELSE <<>>
    IN  /\ DOMAIN after = DOMAIN before \cup {key}
        /\ Len(after[key]) = Len(earlier) + 1
        /\ \A n \in 1..Len(earlier) : after[key][n] = earlier[n]
        /\ after[key][Len(earlier) + 1] = C21_EntryOf(op, progressClock)
        /\ \A other \in DOMAIN before \ {key} : after[other] = before[other]
        /\ progressObj'[i].status = progressObj[i].status
        /\ progressObj'[i].total = progressObj[i].total
        /\ progressObj'[i].processed = progressObj[i].processed
        /\ progressRow'.status = progressRow.status
        /\ progressRow'.total = progressRow.total
        /\ progressRow'.processed = progressRow.processed
        /\ \A j \in Instances \ {i} : progressObj'[j] = progressObj[j]

C21_AppendOnly ==
    [][(/\ progressClock' # progressClock
        /\ progressCall'.op \in {"log_step", "log_error", "log_request"})
          => C21_Appended(progressCall'.obj, progressCall'.op)]_vars

C21_Witness ==
    /\ progressCall.op = "log_step"
    /\ "requests" \in DOMAIN progressObj[progressCall.obj].progress_log
    /\ "steps" \in DOMAIN progressObj[progressCall.obj].progress_log
    /\ Len(progressObj[progressCall.obj].progress_log["steps"]) = 2
    /\ progressObj[progressCall.obj].progress_log["steps"][1].timestamp = 1
    /\ progressObj[progressCall.obj].progress_log["steps"][2].timestamp = 2

(* C22: two in-memory instances of one row, used in an interleaved way.    *)
(* The entry that log_step, log_error, log_request or mark_as_failed       *)
(* persisted through one instance is still in the persisted progress_log   *)
(* after the next call, made through the other instance; and               *)
(* update_progress, mark_as_started and mark_as_completed through one      *)
(* instance leave the persisted progress_log as the other persisted it.    *)
C22_Persisted(op) ==
    IF op = "mark_as_failed"
    THEN "error" \in DOMAIN progressRow.progress_log
    ELSE LET key == C21_ListOf(op) IN
         /\ key \in DOMAIN progressRow.progress_log
         /\ Len(progressRow.progress_log[key]) > 0

C22_StillPersisted(op) ==
    IF op = "mark_as_failed"
    THEN "error" \in DOMAIN progressRow'.progress_log
    ELSE LET key == C21_ListOf(op)
             entry == progressRow.progress_log[key]
                          [Len(progressRow.progress_log[key])]
         IN  /\ key \in DOMAIN progressRow'.progress_log
             /\ \E n \in 1..Len(progressRow'.progress_log[key]) :
                    progressRow'.progress_log[key][n] = entry

====
